---- MODULE Spec2Model ----
(***************************************************************************)
(* Model of the Discord relay bot of src/maindc.py: the access resolver    *)
(* (is_allowed), the command grammar and provider routing of               *)
(* handle_message, the provider boundary (fetch_*_response) and the reply  *)
(* segmenter (split_message).                                              *)
(* Also src/main.py, the earlier variant driven by a .txt attachment, and  *)
(* the event loop with two messages in flight.                             *)
(*                                                                         *)
(* Strings are sequences of characters.  Inside split_message a piece of   *)
(* the input (a part, the running chunk, a returned chunk) is represented  *)
(* by the sequence of the 1-based positions of its characters in the       *)
(* input; Str turns it back into the characters.  Slices keep Python's     *)
(* 0-based, end-exclusive offsets.                                         *)
(***************************************************************************)
EXTENDS Integers, Sequences, FiniteSets, TLC

VARIABLES
    \* ---- split_message applied to one input (SpecSplit)
    content,            \* the text handed to split_message
    max_length,         \* its max_length argument
    s_parts,            \* the list parts after the fence scan (as position sequences)
    messages,           \* the returned list (as position sequences)
    spc,                \* "ready" before the call, "done" after
    \* ---- is_allowed applied to one location (SpecAllowed)
    a_message,          \* the message whose location is resolved
    a_allowed,          \* the allow-list it is resolved against
    a_result,           \* "none" before the call, then "allowed" or "rejected"
    \* ---- the bot: handle_message on the event loop (Spec)
    allowed_channels,   \* the allow-list parsed at startup
    name_mapping,       \* the module-level dict NAME_MAPPING
    pc,                 \* where the handler of the current message stands
    message,            \* the inbound message being handled
    outcome,            \* how its handling ended ("none" while it runs)
    provider_result,    \* what the provider client answered
    reply,              \* the reply returned by fetch_*_response
    split_replies,      \* split_message(reply)
    sent_parts,         \* number of parts of split_replies sent so far
    target_channel,     \* where the parts go
    sends,              \* calls of channel.send made for this message
    provider_calls,     \* calls of a provider client made for this message
    threads_created,    \* calls of message.create_thread made for this message
    threads_deleted,    \* calls of channel.delete made for this message
    error_log,          \* entries of the except branch's logger.error
    \* ---- src/main.py: two messages in flight on the event loop (SpecMain)
    m_task,             \* per task: the handler's position and its locals
    m_path,             \* the working directory: temp file name -> inode, 0 if absent
    m_inode,            \* the content of each inode (named by the task that made it)
    \* ---- src/maindc.py: two messages in flight on the event loop (SpecLoop)
    l_task,             \* per task: the handler's position and its command
    \* ---- parse_allowed_channels applied to one configuration text (SpecParse)
    raw_channel_mapping,    \* the text of ALLOWED_CHANNEL_IDS
    parsed_channels,        \* the returned set
    ppc,                    \* "ready" before the call, "done" after
    \* ---- which of the two scripts of the repository was started
    program                 \* "maindc" (src/maindc.py) or "main" (src/main.py)

svars == <<content, max_length, s_parts, messages, spc>>
avars == <<a_message, a_allowed, a_result>>
hvars == <<allowed_channels, name_mapping, pc, message, outcome, provider_result, reply, split_replies,
           sent_parts, target_channel, sends, provider_calls, threads_created,
           threads_deleted, error_log>>
mvars == <<m_task, m_path, m_inode>>
lvars == <<l_task>>
pvars == <<raw_channel_mapping, parsed_channels, ppc, program>>
vars == <<svars, avars, hvars, mvars, lvars, pvars>>

\* ------------------------------------------------------------------ bounds
MaxTextLen == 12        \* longest text handed to split_message
MaxSplitLen == 7        \* largest max_length tried
MaxContentLen == 5      \* longest inbound message content, in words and blanks
MaxReplyLen == 3        \* longest text a provider returns
MaxChunk == 2           \* split_message's default max_length (2000), scaled down

\* ------------------------------------------------------------- sequences
Min(S) == CHOOSE x \in S : \A y \in S : x <= y

\* Python slice s[a:b] of a whole string, as positions (a, b 0-based, b exclusive)
Span(a, b) == [k \in 1..(b - a) |-> a + k]

\* the characters at the positions idx of text s
Str(s, idx) == [k \in 1..Len(idx) |-> s[idx[k]]]

RECURSIVE Concat(_)
Concat(ss) == IF ss = <<>> THEN <<>> ELSE Head(ss) \o Concat(Tail(ss))

RECURSIVE SeqsUpTo(_, _)
SeqsUpTo(A, n) ==
    IF n = 0 THEN {<<>>}
    ELSE LET shorter == SeqsUpTo(A, n - 1)
         IN  shorter \cup {Append(s, a) : s \in {t \in shorter : Len(t) = n - 1}, a \in A}

\* ------------------------------------------------ split_message: the scan
\* the backtick character (written out: the lexer reserves the glyph)
TICK == "BACKTICK"

\* a fence (three backticks) starts at 0-based offset i of s
FenceAt(s, i) ==
    /\ i + 3 <= Len(s)
    /\ s[i + 1] = TICK /\ s[i + 2] = TICK /\ s[i + 3] = TICK

NoMatch == <<-1, -1>>

\* mutant: the match runs to the last closing fence
codeblock_search_Greedy(s, pos) ==
    LET opens == {i \in pos..Len(s) :
                    FenceAt(s, i) /\ \E j \in (i + 3)..Len(s) : FenceAt(s, j)}
    IN  IF opens = {} THEN NoMatch
        ELSE LET start == Min(opens)
                 close == CHOOSE j \in (start + 3)..Len(s) :
                            /\ FenceAt(s, j)
                            /\ \A c \in (j + 1)..Len(s) : ~FenceAt(s, c)
             IN  <<start, close + 3>>

\* codeblock_pattern.search(s, pos): the leftmost opening fence that
\* has a closing fence after it, closed by the nearest one; <<start, end>>
codeblock_search(s, pos) ==
    LET opens == {i \in pos..Len(s) :
                    FenceAt(s, i) /\ \E j \in (i + 3)..Len(s) : FenceAt(s, j)}
    IN  IF opens = {} THEN NoMatch
        ELSE LET start == Min(opens)
                 close == Min({j \in (start + 3)..Len(s) : FenceAt(s, j)})
             IN  <<start, close + 3>>

\* codeblock_pattern.finditer(s): the successive non-overlapping matches
RECURSIVE finditer(_, _)
finditer(s, pos) ==
    LET m == codeblock_search(s, pos)
    IN  IF m = NoMatch THEN <<>> ELSE <<m>> \o finditer(s, m[2])

\* the loop of lines 458-465, from match number k on
RECURSIVE scan_loop(_, _, _, _)
scan_loop(ms, k, last_index, parts) ==
    IF k > Len(ms) THEN [parts |-> parts, last_index |-> last_index]
    ELSE LET start == ms[k][1]
             end == ms[k][2]
             plain == IF start > last_index
                      THEN Append(parts, Span(last_index, start))
                      ELSE parts
         IN  scan_loop(ms, k + 1, end, Append(plain, Span(start, end)))

\* lines 455-469: the ordered parts (plain and fenced) of the text
scan_parts(s) ==
    LET r == scan_loop(finditer(s, 0), 1, 0, <<>>)
    IN  IF r.last_index < Len(s)
        THEN Append(r.parts, Span(r.last_index, Len(s)))
        ELSE r.parts

\* ------------------------------------- split_message: the greedy flush
\* the test: fence in part
has_fence(str) == \E i \in 0..Len(str) : FenceAt(str, i)

\* codeblock_pattern.findall(part): the matches inside the part
findall(s, part) ==
    LET ms == finditer(Str(s, part), 0)
    IN  [k \in 1..Len(ms) |-> SubSeq(part, ms[k][1] + 1, ms[k][2])]

\* [piece[i:i + n] for i in range(0, len(piece), n)]
slices(piece, n) ==
    [k \in 1..((Len(piece) + n - 1) \div n) |->
        SubSeq(piece, (k - 1) * n + 1,
               IF k * n < Len(piece) THEN k * n ELSE Len(piece))]

\* mutant: the running chunk is never flushed before it grows
flush_before_Never(st, piece, n) == st

\* mutant: the running chunk is flushed as soon as the piece fills it
flush_before_AtLimit(st, piece, n) ==
    IF Len(st.current_message) + Len(piece) >= n /\ st.current_message # <<>>
    THEN [messages |-> Append(st.messages, st.current_message),
          current_message |-> <<>>]
    ELSE st

\* lines 487-490, 496-499, 502-505: flush the running chunk when the piece
\* does not fit behind it
flush_before(st, piece, n) ==
    IF Len(st.current_message) + Len(piece) > n /\ st.current_message # <<>>
    THEN [messages |-> Append(st.messages, st.current_message),
          current_message |-> <<>>]
    ELSE st

\* current_message += piece
accumulate(st, piece) ==
    [st EXCEPT !.current_message = st.current_message \o piece]

\* mutant: a fenced block longer than max_length goes out in one piece
force_split_Whole(st, codeblock, n) ==
    [st EXCEPT !.messages = Append(st.messages, codeblock)]

\* lines 484-485: a fenced block longer than max_length goes out in slices
force_split(st, codeblock, n) ==
    [st EXCEPT !.messages = st.messages \o slices(codeblock, n)]

\* lines 481-491: the loop over the fenced blocks of an oversized part
RECURSIVE codeblock_loop(_, _, _, _)
codeblock_loop(st, codeblocks, k, n) ==
    IF k > Len(codeblocks) THEN st
    ELSE LET codeblock == codeblocks[k]
             next == IF Len(codeblock) > n
                     THEN force_split(st, codeblock, n)
                     ELSE LET f == flush_before(st, codeblock, n)
                          IN  [f EXCEPT !.messages = Append(f.messages, codeblock)]
         IN  codeblock_loop(next, codeblocks, k + 1, n)

\* lines 494-500: an oversized plain part is cut at max_length offsets
RECURSIVE chunk_loop(_, _, _, _)
chunk_loop(st, chunks, k, n) ==
    IF k > Len(chunks) THEN st
    ELSE chunk_loop(accumulate(flush_before(st, chunks[k], n), chunks[k]),
                    chunks, k + 1, n)

\* mutant: a part that does not fit is cut to fill the running chunk
small_part_Fill(st, part, n) ==
    LET all == st.current_message \o part
    IN  IF Len(all) > n
        THEN [messages |-> Append(st.messages, SubSeq(all, 1, n)),
              current_message |-> SubSeq(all, n + 1, Len(all))]
        ELSE [st EXCEPT !.current_message = all]

\* lines 501-506: a part that fits in one chunk
small_part(st, part, n) == accumulate(flush_before(st, part, n), part)

\* lines 476-506: one iteration of the loop over the parts
process_part(s, st, part, n) ==
    IF Len(part) > n
    THEN IF has_fence(Str(s, part))
         THEN codeblock_loop(st, findall(s, part), 1, n)
         ELSE chunk_loop(st, slices(part, n), 1, n)
    ELSE small_part(st, part, n)

RECURSIVE part_loop(_, _, _, _, _)
part_loop(s, st, parts, k, n) ==
    IF k > Len(parts) THEN st
    ELSE part_loop(s, process_part(s, st, parts[k], n), parts, k + 1, n)

\* mutant: what is left at the end is appended also when it is empty
split_positions_FlushAlways(s, n) ==
    LET st == part_loop(s, [messages |-> <<>>, current_message |-> <<>>],
                        scan_parts(s), 1, n)
    IN  Append(st.messages, st.current_message)

\* split_message, each returned chunk as the positions of its characters
split_positions(s, n) ==
    LET st == part_loop(s, [messages |-> <<>>, current_message |-> <<>>],
                        scan_parts(s), 1, n)
    IN  IF st.current_message # <<>>
        THEN Append(st.messages, st.current_message)
        ELSE st.messages

\* split_message(content, max_length): the returned list of strings
split_message(s, n) ==
    LET r == split_positions(s, n)
    IN  [k \in 1..Len(r) |-> Str(s, r[k])]

\* --------------------------------------------------------- str methods
SPACE == " "
NEWLINE == "\n"
Whitespace == {SPACE, NEWLINE}

\* sep.join(pieces)
RECURSIVE join(_, _)
join(pieces, sep) ==
    IF pieces = <<>> THEN <<>>
    ELSE IF Len(pieces) = 1 THEN pieces[1]
    ELSE pieces[1] \o <<sep>> \o join(Tail(pieces), sep)

\* s.split(sep, maxsplit) for a one-character sep
RECURSIVE split(_, _, _)
split(s, sep, maxsplit) ==
    LET at == {i \in 1..Len(s) : s[i] = sep}
    IN  IF maxsplit = 0 \/ at = {} THEN <<s>>
        ELSE LET i == Min(at)
             IN  <<SubSeq(s, 1, i - 1)>>
                    \o split(SubSeq(s, i + 1, Len(s)), sep, maxsplit - 1)

\* s.splitlines(): the lines, without a last empty one
splitlines(s) ==
    IF s = <<>> THEN <<>>
    ELSE LET lines == split(s, NEWLINE, Len(s))
         IN  IF lines[Len(lines)] = <<>>
             THEN SubSeq(lines, 1, Len(lines) - 1)
             ELSE lines

\* s.rstrip()
RECURSIVE rstrip(_)
rstrip(s) ==
    IF s # <<>> /\ s[Len(s)] \in Whitespace
    THEN rstrip(SubSeq(s, 1, Len(s) - 1))
    ELSE s

\* s.lstrip()
RECURSIVE lstrip(_)
lstrip(s) ==
    IF s # <<>> /\ s[1] \in Whitespace THEN lstrip(Tail(s)) ELSE s

\* s.strip()
strip(s) == lstrip(rstrip(s))

\* ------------------------------------------------------------- constants
\* lines 11-23: selector -> provider model id
NAME_MAPPING ==
    [n \in {"o1", "o3m", "o1m", "4o", "son37", "opus", "sonnet", "haiku"} |->
        CASE n = "o1" -> "o1"
          [] n = "o3m" -> "o3-mini"
          [] n = "o1m" -> "o1-mini"
          [] n = "4o" -> "chatgpt-4o"
          [] n = "son37" -> "claude-3-7-sonnet-latest"
          [] n = "opus" -> "claude-3-opus-20240229"
          [] n = "sonnet" -> "claude-3-5-sonnet-20241022"
          [] n = "haiku" -> "claude-3-5-haiku-20241022"]

\* a word of a message is one character of the model; a token made of a single
\* word w is the string w, a token of several words is no key of NAME_MAPPING
IsKey(name) == Len(name) = 1 /\ name[1] \in DOMAIN name_mapping

\* None, where an id is expected (line 90) and as NAME_MAPPING.get's default
None == 0
NoModel == "None"

\* mutant: an unknown name falls back to a default model
name_mapping_get_Default(name) ==
    IF IsKey(name) THEN name_mapping[name[1]] ELSE "chatgpt-4o"

name_mapping_get(name) == IF IsKey(name) THEN name_mapping[name[1]] ELSE NoModel

\* the model ids served by Anthropic
AnthropicModels == {"claude-3-7-sonnet-latest", "claude-3-opus-20240229",
                    "claude-3-5-sonnet-20241022", "claude-3-5-haiku-20241022"}

\* the fixed strings returned at the provider boundary, one character each
APOLOGY == <<"APOLOGY">>                    \* lines 432 and 446
FORMAT_ANOMALY == <<"FORMAT_ANOMALY">>      \* line 428

\* ------------------------------------------------------------ is_allowed
ThreadTypes == {"public_thread", "private_thread"}

\* mutant: a thread is looked up by its own id, like any channel
is_allowed_OwnId(m, allowed) ==
    IF m.channel_type = "private" THEN FALSE
    ELSE <<m.guild, m.channel_id>> \in allowed

\* lines 89-108
is_allowed(m, allowed) ==
    LET guild_id == m.guild
        channel_id == m.channel_id
    IN  IF m.channel_type = "private" THEN FALSE
        ELSE IF m.channel_type \in ThreadTypes
             THEN m.parent # None /\ <<guild_id, m.parent>> \in allowed
             ELSE <<guild_id, channel_id>> \in allowed

\* ------------------------------------------ handle_message: the command
\* lines 566-567: trailing whitespace stripped from every line
normalized(text) ==
    LET content_lines == splitlines(text)
    IN  join([k \in 1..Len(content_lines) |-> rstrip(content_lines[k])], NEWLINE)

\* line 568: first_line, *remaining_lines = content.split("\n", 1)
first_line(text) == split(normalized(text), NEWLINE, 1)[1]
remaining_lines(text) == Tail(split(normalized(text), NEWLINE, 1))

\* line 569
command_parts(text) == split(first_line(text), SPACE, 2)

\* line 581: _, name, *info = parts
command_name(text) == command_parts(text)[2]

\* lines 581-585: the prompt handed to the provider
user_message(text) ==
    LET info == Tail(Tail(command_parts(text)))
        info_part == join(info, SPACE)
        remaining_part == strip(join(remaining_lines(text), NEWLINE))
    IN  info_part \o <<NEWLINE>> \o remaining_part

\* line 600: the client a selector is routed to
provider_of(name) ==
    IF Len(name) = 1 /\ name[1] \in {"opus", "sonnet", "haiku"}
    THEN "anthropic" ELSE "openai"

\* --------------------------------------------- the provider boundary
\* What a provider client does with a request: it raises, it returns a
\* response of an unexpected shape (Anthropic: content is not a list; OpenAI:
\* no choice, or a choice without content), or it returns text blocks.
\* lines 415-432
fetch_anthropic_response(result) ==
    IF result.kind = "raise" THEN APOLOGY
    ELSE IF result.kind = "bad_shape" THEN FORMAT_ANOMALY
    ELSE strip(join(result.blocks, NEWLINE))

\* lines 435-446
fetch_openai_response(result) ==
    IF result.kind = "raise" THEN APOLOGY
    ELSE IF result.kind = "bad_shape" THEN APOLOGY
    ELSE strip(result.blocks[1])

\* ------------------------------------------------------------- inputs
GuildIds == {1}
ChannelIds == {1, 2}

Location(g, t, c, p) ==
    [guild |-> g, channel_type |-> t, channel_id |-> c, parent |-> p]

\* direct-message channels, text channels of a guild, threads under a channel
\* (or with no resolvable parent)
Locations ==
    {Location(None, "private", c, None) : c \in ChannelIds}
    \cup {Location(g, "text", c, None) : g \in GuildIds, c \in ChannelIds}
    \cup {l \in {Location(g, t, c, p) : g \in GuildIds, t \in ThreadTypes,
                    c \in ChannelIds, p \in ChannelIds \cup {None}} :
             l.parent # l.channel_id}

AllowLists == SUBSET (GuildIds \X ChannelIds)

Message(l, bot, mention, text) ==
    [author_is_bot |-> bot, guild |-> l.guild, channel_type |-> l.channel_type,
     channel_id |-> l.channel_id, parent |-> l.parent, mentioned |-> mention,
     content |-> text]

DEL == "!del"
Words == DOMAIN NAME_MAPPING \cup {"OPUS", DEL}

\* message contents: blanks, newlines and repetitions of one word
Contents == UNION {SeqsUpTo({SPACE, NEWLINE, w}, MaxContentLen) : w \in Words}

\* contents every location and author is tried with
ProbeContents ==
    {<<DEL>>, <<"opus">>, <<"opus", SPACE, "opus", SPACE, "opus">>,
     <<"4o", SPACE, "OPUS", SPACE, "4o">>}

\* the locations every content is tried at, from a user
CommandLocations ==
    {Location(1, "text", 1, None), Location(1, "public_thread", 2, 1)}

\* every location, author and mention flag, with the probe contents
GateMessages ==
    {Message(l, b, mt, t) :
        l \in Locations, b \in BOOLEAN, mt \in BOOLEAN, t \in ProbeContents}

\* every content, from a user at the command locations
CommandMessages ==
    {Message(l, FALSE, mt, t) :
        l \in CommandLocations, mt \in BOOLEAN, t \in Contents}

\* provider texts: plain and fence characters, and texts with blank ends
ReplyTexts ==
    SeqsUpTo({"a", TICK}, MaxReplyLen)
    \cup {<<SPACE>>, <<SPACE, "a">>, <<"a", NEWLINE>>}

Result(k, b) == [kind |-> k, blocks |-> b]
NoResult == Result("none", <<>>)

\* what the OpenAI client can answer
OpenAIResults ==
    {Result("raise", <<>>), Result("bad_shape", <<>>)}
    \cup {Result("ok", <<t>>) : t \in ReplyTexts}

\* what the Anthropic client can answer: also no block, or two blocks
AnthropicResults ==
    OpenAIResults
    \cup {Result("ok", <<>>), Result("ok", <<<<"a">>, <<"a">>>>)}

\* ------------------------------------------------------- handle_message
is_thread(m) == m.channel_type \in ThreadTypes

\* mutant: the location check is skipped
Accepted_Open(m) ==
    /\ ~m.author_is_bot
    /\ ~(is_thread(m) /\ m.parent = None)

\* lines 515-520 passed, and lines 541-546 (a thread needs its parent)
Accepted(m) ==
    /\ ~m.author_is_bot
    /\ is_allowed(m, allowed_channels)
    /\ ~(is_thread(m) /\ m.parent = None)

\* mutant: the content is compared without trimming
IsDelete_Exact(m) == is_thread(m) /\ m.content = <<DEL>>

\* line 551
IsDelete(m) == is_thread(m) /\ strip(m.content) = <<DEL>>

\* mutant: the mention is not asked for
Mentioning_Always(m) == Accepted(m) /\ ~IsDelete(m)

\* line 563 reached and true
Mentioning(m) == Accepted(m) /\ ~IsDelete(m) /\ m.mentioned

\* mutant: two parts are enough
WellFormed_TwoParts(m) == Len(command_parts(m.content)) >= 2

\* line 571 false
WellFormed(m) == Len(command_parts(m.content)) >= 3

NoTarget == [kind |-> "none", id |-> None]
Channel(c) == [kind |-> "channel", id |-> c]
NewThread == [kind |-> "new_thread", id |-> None]

Send(dest, k, b) == [channel |-> dest, kind |-> k, body |-> b]
ProviderCall(c, mid, prompt) == [client |-> c, model |-> mid, prompt |-> prompt]

\* the handler returns to the event loop
Return(how) == pc' = "returned" /\ outcome' = how

\* lines 611-619: the except branch logs and returns
Except(what) ==
    /\ error_log' = Append(error_log, what)
    /\ Return("failed")

\* lines 608-609 from part number k on: send it, or finish
SendFrom(parts, k, dest) ==
    IF k > Len(parts)
    THEN Return("delivered") /\ UNCHANGED sends
    ELSE /\ sends' = Append(sends, Send(dest, "part", parts[k]))
         /\ pc' = "await_part_send"
         /\ UNCHANGED outcome

\* mutant: the parts always go to the inbound channel, no thread is created
Deliver_InPlace(m, r) ==
    /\ reply' = r
    /\ split_replies' = split_message(r, MaxChunk)
    /\ sent_parts' = 0
    /\ target_channel' = Channel(m.channel_id)
    /\ SendFrom(split_replies', 1, target_channel')
    /\ UNCHANGED threads_created

\* lines 606-609 up to the first await, with the provider's reply r
Deliver(m, r) ==
    /\ reply' = r
    /\ split_replies' = split_message(r, MaxChunk)
    /\ sent_parts' = 0
    /\ IF is_thread(m)
       THEN /\ target_channel' = Channel(m.channel_id)
            /\ SendFrom(split_replies', 1, target_channel')
            /\ UNCHANGED threads_created
       ELSE /\ threads_created' =
                   Append(threads_created, name_mapping_get(command_name(m.content)))
            /\ pc' = "await_create_thread"
            /\ UNCHANGED <<target_channel, sends, outcome>>

\* the value of message while the event loop waits
NoMessage == Message(Location(None, "private", 1, None), TRUE, FALSE, <<>>)

HandlerInit ==
    /\ name_mapping = NAME_MAPPING
    /\ pc = "idle"
    /\ message = NoMessage
    /\ outcome = "none"
    /\ provider_result = NoResult
    /\ reply = <<>>
    /\ split_replies = <<>>
    /\ sent_parts = 0
    /\ target_channel = NoTarget
    /\ sends = <<>>
    /\ provider_calls = <<>>
    /\ threads_created = <<>>
    /\ threads_deleted = <<>>
    /\ error_log = <<>>

effects == <<sends, provider_calls, threads_created, threads_deleted, error_log>>
delivery == <<provider_result, reply, split_replies, sent_parts, target_channel>>

\* lines 515-516: the bot's own message
IgnoreOwn(m) ==
    /\ pc = "idle"
    /\ m.author_is_bot
    /\ message' = m
    /\ Return("ignored")
    /\ UNCHANGED <<svars, avars, mvars, lvars, pvars, allowed_channels, name_mapping, effects, delivery>>

\* mutant: a message from a location that is not allowed adds the location
\* to the allow-list
Drop_Learns(m) ==
    /\ pc = "idle"
    /\ ~m.author_is_bot
    /\ ~Accepted(m)
    /\ message' = m
    /\ allowed_channels' = allowed_channels \cup {<<m.guild, m.channel_id>>}
    /\ Return("dropped")
    /\ UNCHANGED <<svars, avars, mvars, lvars, pvars, name_mapping, effects, delivery>>

\* lines 519-520 and 541-546: a message from a location that is not allowed
Drop(m) ==
    /\ pc = "idle"
    /\ ~m.author_is_bot
    /\ ~Accepted(m)
    /\ message' = m
    /\ Return("dropped")
    /\ UNCHANGED <<svars, avars, mvars, lvars, pvars, allowed_channels, name_mapping, effects, delivery>>

\* lines 551-554: the deletion command in a thread, up to the await
DeleteCommand(m) ==
    /\ pc = "idle"
    /\ Accepted(m)
    /\ IsDelete(m)
    /\ message' = m
    /\ threads_deleted' = Append(threads_deleted, m.channel_id)
    /\ pc' = "await_delete"
    /\ UNCHANGED <<svars, avars, mvars, lvars, pvars, allowed_channels, name_mapping, outcome, delivery, sends, provider_calls,
                   threads_created, error_log>>

\* lines 555-561
DeleteReturns ==
    /\ pc = "await_delete"
    /\ Return("deleted")
    /\ UNCHANGED <<svars, avars, mvars, lvars, pvars, allowed_channels, name_mapping, message, effects, delivery>>

DeleteRaises ==
    /\ pc = "await_delete"
    /\ Except("delete")
    /\ UNCHANGED <<svars, avars, mvars, lvars, pvars, allowed_channels, name_mapping, message, delivery, sends, provider_calls,
                   threads_created, threads_deleted>>

\* line 563 false: nothing is done
NotMentioned(m) ==
    /\ pc = "idle"
    /\ Accepted(m)
    /\ ~IsDelete(m)
    /\ ~m.mentioned
    /\ message' = m
    /\ Return("not_mentioned")
    /\ UNCHANGED <<svars, avars, mvars, lvars, pvars, allowed_channels, name_mapping, effects, delivery>>

\* lines 571-572: fewer than 3 parts on the first line
FormatError(m) ==
    /\ pc = "idle"
    /\ Mentioning(m)
    /\ ~WellFormed(m)
    /\ message' = m
    /\ sends' = Append(sends, Send(Channel(m.channel_id), "format_error", <<>>))
    /\ pc' = "await_error_send"
    /\ UNCHANGED <<svars, avars, mvars, lvars, pvars, allowed_channels, name_mapping, outcome, delivery, provider_calls,
                   threads_created, threads_deleted, error_log>>

\* lines 588-590: the name is no key of NAME_MAPPING
UnknownName(m) ==
    /\ pc = "idle"
    /\ Mentioning(m)
    /\ WellFormed(m)
    /\ name_mapping_get(command_name(m.content)) = NoModel
    /\ message' = m
    /\ sends' = Append(sends, Send(Channel(m.channel_id), "unknown_name",
                                   command_name(m.content)))
    /\ pc' = "await_error_send"
    /\ UNCHANGED <<svars, avars, mvars, lvars, pvars, allowed_channels, name_mapping, outcome, delivery, provider_calls,
                   threads_created, threads_deleted, error_log>>

\* lines 573-579, 591-597
ErrorSendReturns ==
    /\ pc = "await_error_send"
    /\ Return("reported")
    /\ UNCHANGED <<svars, avars, mvars, lvars, pvars, allowed_channels, name_mapping, message, effects, delivery>>

ErrorSendRaises ==
    /\ pc = "await_error_send"
    /\ Except("send")
    /\ UNCHANGED <<svars, avars, mvars, lvars, pvars, allowed_channels, name_mapping, message, delivery, sends, provider_calls,
                   threads_created, threads_deleted>>

\* lines 600-601 and 606-609: the Anthropic client is synchronous, the call
\* returns within the step, which runs on to the next await
DispatchAnthropic(m, result) ==
    /\ pc = "idle"
    /\ Mentioning(m)
    /\ WellFormed(m)
    /\ name_mapping_get(command_name(m.content)) # NoModel
    /\ provider_of(command_name(m.content)) = "anthropic"
    /\ message' = m
    /\ provider_calls' =
          Append(provider_calls,
                 ProviderCall("anthropic", name_mapping_get(command_name(m.content)),
                              user_message(m.content)))
    /\ provider_result' = result
    /\ Deliver(m, fetch_anthropic_response(result))
    /\ UNCHANGED <<svars, avars, mvars, lvars, pvars, allowed_channels, name_mapping, threads_deleted, error_log>>

\* lines 602-603: the OpenAI call is awaited
DispatchOpenAI(m) ==
    /\ pc = "idle"
    /\ Mentioning(m)
    /\ WellFormed(m)
    /\ name_mapping_get(command_name(m.content)) # NoModel
    /\ provider_of(command_name(m.content)) = "openai"
    /\ message' = m
    /\ provider_calls' =
          Append(provider_calls,
                 ProviderCall("openai", name_mapping_get(command_name(m.content)),
                              user_message(m.content)))
    /\ pc' = "await_provider"
    /\ UNCHANGED <<svars, avars, mvars, lvars, pvars, allowed_channels, name_mapping, outcome, delivery, sends, threads_created,
                   threads_deleted, error_log>>

\* mutant: a call that raised is made once more
ProviderReturns_Retry(result) ==
    /\ pc = "await_provider"
    /\ provider_result' = result
    /\ IF result.kind = "raise" /\ Len(provider_calls) < 2
       THEN /\ provider_calls' = Append(provider_calls, provider_calls[1])
            /\ UNCHANGED <<pc, outcome, reply, split_replies, sent_parts,
                           target_channel, sends, threads_created>>
       ELSE /\ Deliver(message, fetch_openai_response(result))
            /\ UNCHANGED provider_calls
    /\ UNCHANGED <<svars, avars, mvars, lvars, pvars, allowed_channels, name_mapping, message, threads_deleted,
                   error_log>>

\* lines 603-609: fetch_openai_response returns, up to the next await
ProviderReturns(result) ==
    /\ pc = "await_provider"
    /\ provider_result' = result
    /\ Deliver(message, fetch_openai_response(result))
    /\ UNCHANGED <<svars, avars, mvars, lvars, pvars, allowed_channels, name_mapping, message, provider_calls, threads_deleted,
                   error_log>>

\* lines 607-609: the thread exists, the parts go to it
CreateThreadReturns ==
    /\ pc = "await_create_thread"
    /\ target_channel' = NewThread
    /\ SendFrom(split_replies, 1, NewThread)
    /\ UNCHANGED <<svars, avars, mvars, lvars, pvars, allowed_channels, name_mapping, message, provider_result, reply,
                   split_replies, sent_parts, provider_calls, threads_created, threads_deleted, error_log>>

CreateThreadRaises ==
    /\ pc = "await_create_thread"
    /\ Except("create_thread")
    /\ UNCHANGED <<svars, avars, mvars, lvars, pvars, allowed_channels, name_mapping, message, delivery, sends, provider_calls,
                   threads_created, threads_deleted>>

\* lines 608-609: a part is out, the next one follows
PartSendReturns ==
    /\ pc = "await_part_send"
    /\ sent_parts' = sent_parts + 1
    /\ SendFrom(split_replies, sent_parts + 2, target_channel)
    /\ UNCHANGED <<svars, avars, mvars, lvars, pvars, allowed_channels, name_mapping, message, provider_result, reply,
                   split_replies, target_channel, provider_calls, threads_created,
                   threads_deleted, error_log>>

PartSendRaises ==
    /\ pc = "await_part_send"
    /\ Except("send")
    /\ UNCHANGED <<svars, avars, mvars, lvars, pvars, allowed_channels, name_mapping, message, delivery, sends, provider_calls,
                   threads_created, threads_deleted>>

\* the handler has returned: the event loop takes the next message, with the
\* bookkeeping of the finished one cleared
NextMessage ==
    /\ pc = "returned"
    /\ pc' = "idle"
    /\ message' = NoMessage
    /\ outcome' = "none"
    /\ provider_result' = NoResult
    /\ reply' = <<>>
    /\ split_replies' = <<>>
    /\ sent_parts' = 0
    /\ target_channel' = NoTarget
    /\ sends' = <<>>
    /\ provider_calls' = <<>>
    /\ threads_created' = <<>>
    /\ threads_deleted' = <<>>
    /\ error_log' = <<>>
    /\ UNCHANGED <<svars, avars, mvars, lvars, pvars, allowed_channels, name_mapping>>

\* =================================================================== main.py
\* src/main.py, the earlier variant of the bot: the command comes in a .txt
\* attachment that process_attachments copies to a temp file in the working
\* directory.  Two messages are in flight: each task is one call of
\* on_message, and a step of a task is what it does between two awaits.

\* main.py lines 11-15
main_NAME_MAPPING ==
    [n \in {"o1", "o1m", "4o"} |->
        CASE n = "o1" -> "o1-preview"
          [] n = "o1m" -> "o1-mini"
          [] n = "4o" -> "chatgpt-4o-latest"]

\* main.py line 203
main_name_mapping_get(name) ==
    IF Len(name) = 1 /\ name[1] \in DOMAIN main_NAME_MAPPING
    THEN main_NAME_MAPPING[name[1]] ELSE NoModel

SLASH == "/"

\* what process_attachments returns: model name, user message, error
Extracted(name, text, err) == [model_name |-> name, user_message |-> text, error |-> err]
NotExtracted == Extracted(<<>>, <<>>, "pending")

\* the character c occurs in s
Contains(s, c) == \E i \in 1..Len(s) : s[i] = c

\* main.py lines 135-147: the content of the .txt file, parsed
parse_attachment(text) ==
    LET lines == split(text, NEWLINE, 1)
        first == lines[1]
        remaining == Tail(lines)
    IN  IF ~Contains(first, SLASH) THEN Extracted(<<>>, <<>>, "format")
        ELSE LET halves == split(first, SLASH, 1)
                 head_message == strip(halves[2])
                 whole == IF remaining # <<>>
                          THEN head_message \o <<NEWLINE>> \o strip(remaining[1])
                          ELSE head_message
             IN  Extracted(strip(halves[1]), strip(whole), "none")

\* main.py lines 188-197: the inline command (the statements of maindc.py
\* lines 566-569), the name and the whole prompt trimmed
main_inline_name(text) == strip(command_name(text))
main_inline_message(text) ==
    strip(join(Tail(Tail(command_parts(text))), SPACE) \o <<NEWLINE>>
            \o join(remaining_lines(text), NEWLINE))

\* ------------------------------------------------------ main.py: inputs
TaskIds == {1, 2}
NoInode == 0

\* file names: stem and extension
TXT == ".txt"
PNG == ".png"
FileNames == {<<"f", TXT>>, <<"g", TXT>>}
endswith(filename, suffix) == filename[Len(filename)] = suffix

Attachment(fn, data) == [filename |-> fn, data |-> data]

\* the allow-list main.py was started with
main_allowed_channels == {<<1, 1>>, <<1, 2>>}

MainLocation(g, c, th, p) ==
    [guild |-> g, channel_id |-> c, is_thread |-> th, parent |-> p]

MainMessage(l, bot, mention, text, atts) ==
    [author_is_bot |-> bot, guild |-> l.guild, channel_id |-> l.channel_id,
     is_thread |-> l.is_thread, parent |-> l.parent, mentioned |-> mention,
     content |-> text,
     attachments |-> atts]

MainNoMessage == MainMessage(MainLocation(None, 1, FALSE, None), TRUE, FALSE, <<>>, <<>>)

\* what a .txt attachment can hold
AttachmentTexts ==
    {<<"4o", SLASH, "x">>, <<"o1", SLASH, "y">>, <<"4o", SLASH>>, <<"4o">>,
     <<"zz", SLASH, "x">>, <<"4o", SLASH, "x", NEWLINE, "y">>,
     <<SPACE, "4o", SPACE, SLASH, SPACE, "x", SPACE>>,
     <<"4o", SLASH, SPACE, NEWLINE, SPACE>>, <<>>, <<SLASH, "x">>,
     <<"4o", SLASH, NEWLINE, "y">>}

InlineTexts ==
    {<<"@bot">>, <<"@bot", SPACE, "o1", SPACE, "hi">>,
     <<"@bot", SPACE, "zz", SPACE, "hi">>}

AttachmentLists ==
    {<<>>, <<Attachment(<<"p", PNG>>, <<>>)>>,
     <<Attachment(<<"p", PNG>>, <<>>), Attachment(<<"f", TXT>>, <<"4o", SLASH, "x">>)>>}
    \cup {<<Attachment(<<"f", TXT>>, d)>> : d \in AttachmentTexts}

\* the messages of the first task: every gate; in a text channel every
\* attachment, and every inline text beside an attachment with an empty
\* prompt; in a thread a command with and without attachment
FirstMessages ==
    {MainMessage(MainLocation(1, 1, FALSE, None), TRUE, TRUE, <<"@bot">>, <<>>),
     MainMessage(MainLocation(None, 1, FALSE, None), FALSE, TRUE, <<"@bot">>, <<>>),
     MainMessage(MainLocation(1, 3, FALSE, None), FALSE, TRUE, <<"@bot">>, <<>>),
     MainMessage(MainLocation(1, 1, FALSE, None), FALSE, FALSE, <<"hi">>, <<>>),
     MainMessage(MainLocation(1, 1, FALSE, None), FALSE, FALSE, <<DEL>>, <<>>)}
    \cup {MainMessage(MainLocation(1, 2, TRUE, 1), FALSE, mt, <<SPACE, DEL>>, <<>>) :
            mt \in BOOLEAN}
    \cup {MainMessage(MainLocation(1, 1, FALSE, None), FALSE, TRUE, <<"@bot">>, a) :
            a \in AttachmentLists}
    \cup {MainMessage(MainLocation(1, 1, FALSE, None), FALSE, TRUE, t,
                      <<Attachment(<<"f", TXT>>, <<"4o", SLASH>>)>>) :
            t \in InlineTexts}
    \cup {MainMessage(MainLocation(1, 2, TRUE, 1), FALSE, TRUE, <<"@bot">>, a) :
            a \in {<<>>, <<Attachment(<<"f", TXT>>, <<"4o", SLASH, "x">>)>>}}
    \* an inline command without attachment; a thread of an allowed channel
    \* that is not listed itself; attachments without a mention; the bot's own
    \* messages in a thread
    \cup {MainMessage(MainLocation(1, 1, FALSE, None), FALSE, TRUE,
                      <<"@bot", SPACE, "o1", SPACE, "hi">>, <<>>)}
    \cup {MainMessage(MainLocation(1, 4, TRUE, 1), FALSE, TRUE, t, a) :
            t \in {<<DEL>>, <<"@bot">>},
            a \in {<<>>, <<Attachment(<<"f", TXT>>, <<"4o", SLASH, "x">>)>>}}
    \cup {MainMessage(l, FALSE, FALSE, <<"hi">>,
                      <<Attachment(<<"f", TXT>>, <<"4o", SLASH, "x">>)>>) :
            l \in {MainLocation(1, 1, FALSE, None), MainLocation(1, 2, TRUE, 1)}}
    \cup {MainMessage(MainLocation(1, 2, TRUE, 1), TRUE, mt, t, a) :
            mt \in BOOLEAN, t \in {<<DEL>>, <<"@bot", SPACE, "o1", SPACE, "hi">>},
            a \in {<<>>, <<Attachment(<<"f", TXT>>, <<"4o", SLASH, "x">>)>>}}

\* the messages of the second task: a .txt attachment under either file name
SecondMessages ==
    {MainMessage(MainLocation(1, 1, FALSE, None), FALSE, TRUE, <<"@bot">>,
                 <<Attachment(fn, <<"o1", SLASH, "y">>)>>) : fn \in FileNames}

MainMessages(t) ==
    IF program # "main" THEN {}
    ELSE IF t = 1 THEN FirstMessages ELSE SecondMessages

\* what the OpenAI client can answer to main.py
MainResults ==
    {Result("raise", <<>>), Result("ok", <<<<"a">>>>), Result("ok", <<<<SPACE>>>>)}

\* ------------------------------------------------- main.py: the handler
MainTask(p, m) ==
    [pc |-> p, message |-> m, txt_file |-> Attachment(<<>>, <<>>),
     handle |-> NoInode, content |-> <<>>, save_failed |-> FALSE,
     extracted |-> NotExtracted, reply |-> <<>>, sends |-> <<>>,
     provider_calls |-> <<>>,
     threads_created |-> <<>>, threads_deleted |-> <<>>, outcome |-> "none"]

MainInit ==
    /\ m_task = [t \in TaskIds |-> MainTask("idle", MainNoMessage)]
    /\ m_path = [fn \in FileNames |-> NoInode]
    /\ m_inode = [t \in TaskIds |-> <<>>]

\* main.py line 120: the first .txt attachment, as its index (0: none)
first_txt(atts) ==
    LET at == {i \in 1..Len(atts) : endswith(atts[i].filename, TXT)}
    IN  IF at = {} THEN 0 ELSE Min(at)

\* mutant: the author is not looked at
main_Accepted_Own(m) ==
    /\ m.guild # None
    /\ <<m.guild, m.channel_id>> \in main_allowed_channels

\* main.py lines 152-160 passed
main_Accepted(m) ==
    /\ ~m.author_is_bot
    /\ m.guild # None
    /\ <<m.guild, m.channel_id>> \in main_allowed_channels

\* main.py line 163
main_IsDelete(m) == m.is_thread /\ strip(m.content) = <<DEL>>

\* the task calls message.channel.send (or thread.send) and awaits it
main_send(task, dest, kind, body, at) ==
    [task EXCEPT !.sends = Append(@, Send(dest, kind, body)), !.pc = at]

main_return(task, how) == [task EXCEPT !.pc = "returned", !.outcome = how]

\* main.py lines 224-226: the except branch logs and sends the failure report
main_except(task) ==
    main_send(task, Channel(task.message.channel_id), "failure_report", <<>>,
              "await_report_send")

\* main.py lines 181-214: handle_message from the result of
\* process_attachments up to its next await
main_after_extract(task, ex) ==
    LET m == task.message
        here == Channel(m.channel_id)
        T == [task EXCEPT !.extracted = ex]
        inline == ex.user_message = <<>>
        chosen_name == IF inline THEN main_inline_name(m.content) ELSE ex.model_name
        chosen_message == IF inline THEN main_inline_message(m.content)
                        ELSE ex.user_message
        converted_name == main_name_mapping_get(chosen_name)
    IN  IF ex.error # "none"
        THEN main_send(T, here, "error", <<ex.error>>, "await_error_send")
        ELSE IF inline /\ Len(command_parts(m.content)) < 3
        THEN main_send(T, here, "format_error", <<>>, "await_error_send")
        ELSE IF converted_name = NoModel
        THEN main_send(T, here, "unknown_name", chosen_name, "await_error_send")
        ELSE IF chosen_message = <<>>
        THEN main_send(T, here, "empty_prompt", <<>>, "await_error_send")
        ELSE [T EXCEPT !.provider_calls =
                          Append(@, ProviderCall("openai", converted_name, chosen_message)),
                       !.pc = "await_provider"]

\* open(path, "wb") in the working directory: the file is made or truncated
\* and data written to it
write_file(fn, t, data) ==
    IF m_path[fn] = NoInode
    THEN /\ m_path' = [m_path EXCEPT ![fn] = t]
         /\ m_inode' = [m_inode EXCEPT ![t] = data]
    ELSE /\ m_inode' = [m_inode EXCEPT ![m_path[fn]] = data]
         /\ UNCHANGED m_path

others == <<svars, avars, hvars, lvars, pvars>>
files == <<m_path, m_inode>>

\* main.py lines 152-153
main_IgnoreOwn(t, m) ==
    /\ m_task[t].pc = "idle"
    /\ m.author_is_bot
    /\ m_task' = [m_task EXCEPT ![t] = main_return(MainTask("idle", m), "ignored")]
    /\ UNCHANGED <<others, files>>

\* main.py lines 155-160
main_Drop(t, m) ==
    /\ m_task[t].pc = "idle"
    /\ ~m.author_is_bot
    /\ ~main_Accepted(m)
    /\ m_task' = [m_task EXCEPT ![t] = main_return(MainTask("idle", m), "dropped")]
    /\ UNCHANGED <<others, files>>

\* main.py lines 163-165: the deletion command, up to the await
main_DeleteCommand(t, m) ==
    /\ m_task[t].pc = "idle"
    /\ main_Accepted(m)
    /\ main_IsDelete(m)
    /\ m_task' = [m_task EXCEPT ![t] =
                    [MainTask("await_delete", m) EXCEPT
                        !.threads_deleted = <<m.channel_id>>]]
    /\ UNCHANGED <<others, files>>

\* main.py lines 166-167
main_DeleteReturns(t) ==
    /\ m_task[t].pc = "await_delete"
    /\ m_task' = [m_task EXCEPT ![t] = main_return(@, "deleted")]
    /\ UNCHANGED <<others, files>>

\* main.py line 165 raises: the call stands before the try of line 178, the
\* exception leaves handle_message and on_message
main_DeleteRaises(t) ==
    /\ m_task[t].pc = "await_delete"
    /\ m_task' = [m_task EXCEPT ![t] = [@ EXCEPT !.pc = "raised", !.outcome = "escaped"]]
    /\ UNCHANGED <<others, files>>

\* main.py lines 170-171
main_NotMentioned(t, m) ==
    /\ m_task[t].pc = "idle"
    /\ main_Accepted(m)
    /\ ~main_IsDelete(m)
    /\ ~m.mentioned
    /\ m_task' = [m_task EXCEPT ![t] = main_return(MainTask("idle", m), "not_mentioned")]
    /\ UNCHANGED <<others, files>>

\* main.py lines 116-122 and 181-184: no attachment, or none that is a .txt
main_NoTextFile(t, m) ==
    /\ m_task[t].pc = "idle"
    /\ main_Accepted(m)
    /\ ~main_IsDelete(m)
    /\ m.mentioned
    /\ first_txt(m.attachments) = 0
    /\ m_task' = [m_task EXCEPT ![t] =
          main_after_extract(MainTask("idle", m),
              Extracted(<<>>, <<>>,
                  IF m.attachments = <<>> THEN "no_attachment" ELSE "no_txt"))]
    /\ UNCHANGED <<others, files>>

\* main.py lines 120-126: a .txt attachment, up to the await of aiofiles.open
main_FoundTextFile(t, m) ==
    /\ m_task[t].pc = "idle"
    /\ main_Accepted(m)
    /\ ~main_IsDelete(m)
    /\ m.mentioned
    /\ first_txt(m.attachments) # 0
    /\ m_task' = [m_task EXCEPT ![t] =
          [MainTask("open_write", m) EXCEPT
              !.txt_file = m.attachments[first_txt(m.attachments)]]]
    /\ UNCHANGED <<others, files>>

\* main.py line 126: aiofiles.open(temp file, "wb") makes or truncates the file
main_OpenWrite(t) ==
    /\ m_task[t].pc = "open_write"
    /\ write_file(m_task[t].txt_file.filename, t, <<>>)
    /\ m_task' = [m_task EXCEPT ![t] = [@ EXCEPT !.pc = "save"]]
    /\ UNCHANGED others

\* main.py line 127: the attachment is downloaded and written to the path
main_SaveReturns(t) ==
    /\ m_task[t].pc = "save"
    /\ write_file(m_task[t].txt_file.filename, t, m_task[t].txt_file.data)
    /\ m_task' = [m_task EXCEPT ![t] = [@ EXCEPT !.pc = "open_read"]]
    /\ UNCHANGED others

\* main.py line 127 raises (the download fails), caught at lines 148-149
main_SaveRaises(t) ==
    /\ m_task[t].pc = "save"
    /\ m_task' = [m_task EXCEPT ![t] =
          main_after_extract([@ EXCEPT !.save_failed = TRUE],
                             Extracted(<<>>, <<>>, "read_failed"))]
    /\ UNCHANGED <<others, files>>

\* main.py line 129: aiofiles.open(temp file, "r"); a missing file raises,
\* caught at lines 148-149
main_OpenRead(t) ==
    /\ m_task[t].pc = "open_read"
    /\ m_task' = [m_task EXCEPT ![t] =
          IF m_path[m_task[t].txt_file.filename] = NoInode
          THEN main_after_extract(@, Extracted(<<>>, <<>>, "read_failed"))
          ELSE [@ EXCEPT !.handle = m_path[m_task[t].txt_file.filename],
                         !.pc = "read"]]
    /\ UNCHANGED <<others, files>>

\* main.py line 130: the open file is read
main_Read(t) ==
    /\ m_task[t].pc = "read"
    /\ m_task' = [m_task EXCEPT ![t] =
          [@ EXCEPT !.content = m_inode[m_task[t].handle], !.pc = "remove"]]
    /\ UNCHANGED <<others, files>>

\* main.py lines 132-147 and 181-214: os.remove (a missing file raises, caught
\* at lines 148-149), the parse, and handle_message up to its next await
main_RemoveAndParse(t) ==
    /\ m_task[t].pc = "remove"
    /\ IF m_path[m_task[t].txt_file.filename] = NoInode
       THEN /\ m_task' = [m_task EXCEPT ![t] =
                  main_after_extract(@, Extracted(<<>>, <<>>, "read_failed"))]
            /\ UNCHANGED files
       ELSE /\ m_path' = [m_path EXCEPT ![m_task[t].txt_file.filename] = NoInode]
            /\ m_task' = [m_task EXCEPT ![t] =
                  main_after_extract(@, parse_attachment(m_task[t].content))]
            /\ UNCHANGED m_inode
    /\ UNCHANGED others

\* main.py lines 85-95: what fetch_openai_response returns
main_fetch_openai_response(result) ==
    IF result.kind = "raise" THEN APOLOGY ELSE strip(result.blocks[1])

\* main.py lines 214-222: the reply is back, up to the next await
main_ProviderReturns(t, result) ==
    /\ m_task[t].pc = "await_provider"
    /\ m_task' = [m_task EXCEPT ![t] =
          LET T == [@ EXCEPT !.reply = main_fetch_openai_response(result)]
          IN  IF T.message.is_thread
              THEN main_send(T, Channel(T.message.channel_id), "reply", T.reply,
                             "await_reply_send")
              ELSE [T EXCEPT !.threads_created = Append(@, T.provider_calls[1].model),
                             !.pc = "await_create_thread"]]
    /\ UNCHANGED <<others, files>>

\* main.py lines 221-222
main_CreateThreadReturns(t) ==
    /\ m_task[t].pc = "await_create_thread"
    /\ m_task' = [m_task EXCEPT ![t] =
          main_send(@, NewThread, "reply", @.reply, "await_reply_send")]
    /\ UNCHANGED <<others, files>>

main_CreateThreadRaises(t) ==
    /\ m_task[t].pc = "await_create_thread"
    /\ m_task' = [m_task EXCEPT ![t] = main_except(@)]
    /\ UNCHANGED <<others, files>>

\* main.py lines 218 and 222: the reply is out
main_ReplySendReturns(t) ==
    /\ m_task[t].pc = "await_reply_send"
    /\ m_task' = [m_task EXCEPT ![t] = main_return(@, "delivered")]
    /\ UNCHANGED <<others, files>>

main_ReplySendRaises(t) ==
    /\ m_task[t].pc = "await_reply_send"
    /\ m_task' = [m_task EXCEPT ![t] = main_except(@)]
    /\ UNCHANGED <<others, files>>

\* main.py lines 183-184, 199-200, 205-206, 210-211: the explanation is out
main_ErrorSendReturns(t) ==
    /\ m_task[t].pc = "await_error_send"
    /\ m_task' = [m_task EXCEPT ![t] = main_return(@, "reported")]
    /\ UNCHANGED <<others, files>>

main_ErrorSendRaises(t) ==
    /\ m_task[t].pc = "await_error_send"
    /\ m_task' = [m_task EXCEPT ![t] = main_except(@)]
    /\ UNCHANGED <<others, files>>

\* main.py line 226: the failure report is out
main_ReportSendReturns(t) ==
    /\ m_task[t].pc = "await_report_send"
    /\ m_task' = [m_task EXCEPT ![t] = main_return(@, "failure_reported")]
    /\ UNCHANGED <<others, files>>

\* main.py line 226 raises inside the except branch: nothing catches it
main_ReportSendRaises(t) ==
    /\ m_task[t].pc = "await_report_send"
    /\ m_task' = [m_task EXCEPT ![t] = [@ EXCEPT !.pc = "raised", !.outcome = "escaped"]]
    /\ UNCHANGED <<others, files>>

MainIdle == MainInit

\* ============================================== maindc.py on the event loop
\* Two calls of maindc.py's handle_message in flight on the one thread of the
\* event loop.  A task gives the loop back at an await; the Anthropic client
\* (anthropic.Anthropic, lines 71-73) is synchronous, so from the call of
\* messages.create (line 416) until it returns the thread of the loop is
\* inside the call.
LoopParts == {0, 1, 2}

LoopTask(p, name, th) == [pc |-> p, name |-> name, in_thread |-> th, left |-> 0]

LoopInit == l_task = [t \in TaskIds |-> LoopTask("idle", "none", FALSE)]

LoopIdle == LoopInit

\* the thread of the event loop is free to run task t
loop_free(t) == \A u \in TaskIds \ {t} : l_task[u].pc # "in_anthropic_call"

loop_rest == <<svars, avars, hvars, mvars, pvars>>

\* lines 515-520, 546, 563: a message that is ignored without an await
loop_Skip(t) ==
    /\ loop_free(t)
    /\ l_task[t].pc = "idle"
    /\ l_task' = [l_task EXCEPT ![t] = [@ EXCEPT !.pc = "returned"]]
    /\ UNCHANGED loop_rest

\* lines 551-554, 571-572, 588-590: the deletion or an explanation, awaited
loop_PlatformCall(t) ==
    /\ loop_free(t)
    /\ l_task[t].pc = "idle"
    /\ l_task' = [l_task EXCEPT ![t] = [@ EXCEPT !.pc = "await_platform"]]
    /\ UNCHANGED loop_rest

\* lines 555-561, 573-579, 591-597, or the except branch of lines 611-619
loop_PlatformReturns(t) ==
    /\ loop_free(t)
    /\ l_task[t].pc = "await_platform"
    /\ l_task' = [l_task EXCEPT ![t] = [@ EXCEPT !.pc = "returned"]]
    /\ UNCHANGED loop_rest

\* lines 600-603 and 435-437: awaited on the AsyncOpenAI client
loop_DispatchOpenAI(t, name, th) ==
    /\ loop_free(t)
    /\ l_task[t].pc = "idle"
    /\ provider_of(<<name>>) = "openai"
    /\ l_task' = [l_task EXCEPT ![t] = LoopTask("await_provider", name, th)]
    /\ UNCHANGED loop_rest

\* lines 600-601 and 415-416: messages.create of the synchronous client is
\* entered
loop_CallAnthropic(t, name, th) ==
    /\ loop_free(t)
    /\ l_task[t].pc = "idle"
    /\ provider_of(<<name>>) = "anthropic"
    /\ l_task' = [l_task EXCEPT ![t] = LoopTask("in_anthropic_call", name, th)]
    /\ UNCHANGED loop_rest

\* lines 606-609 with n parts to send, up to the next await
loop_deliver(task, n) ==
    IF task.in_thread
    THEN [task EXCEPT !.pc = IF n = 0 THEN "returned" ELSE "await_part_send",
                      !.left = n]
    ELSE [task EXCEPT !.pc = "await_create_thread", !.left = n]

\* lines 437-446 and 606-609: the awaited call is back
loop_ProviderReturns(t, n) ==
    /\ loop_free(t)
    /\ l_task[t].pc = "await_provider"
    /\ l_task' = [l_task EXCEPT ![t] = loop_deliver(@, n)]
    /\ UNCHANGED loop_rest

\* lines 416-432 and 606-609: messages.create returns or raises, in the same
\* step the task runs on to its next await
loop_AnthropicReturns(t, n) ==
    /\ l_task[t].pc = "in_anthropic_call"
    /\ l_task' = [l_task EXCEPT ![t] = loop_deliver(@, n)]
    /\ UNCHANGED loop_rest

\* lines 607-609: the thread exists; the first part goes out, or there is none
loop_CreateThreadReturns(t) ==
    /\ loop_free(t)
    /\ l_task[t].pc = "await_create_thread"
    /\ l_task' = [l_task EXCEPT ![t] =
          [@ EXCEPT !.pc = IF l_task[t].left = 0 THEN "returned"
                            ELSE "await_part_send"]]
    /\ UNCHANGED loop_rest

\* mutant: the loop over the parts starts again after the last part
loop_PartSendReturns_Again(t) ==
    /\ loop_free(t)
    /\ l_task[t].pc = "await_part_send"
    /\ l_task' = [l_task EXCEPT ![t] =
          [@ EXCEPT !.left = IF l_task[t].left = 1 THEN 2 ELSE l_task[t].left - 1]]
    /\ UNCHANGED loop_rest

\* lines 608-609: a part is out; it was the last one or the next one follows
loop_PartSendReturns(t) ==
    /\ loop_free(t)
    /\ l_task[t].pc = "await_part_send"
    /\ l_task' = [l_task EXCEPT ![t] =
          [@ EXCEPT !.pc = IF l_task[t].left = 1 THEN "returned" ELSE "await_part_send",
                    !.left = l_task[t].left - 1]]
    /\ UNCHANGED loop_rest

\* lines 611-619: create_thread or a send raises
loop_DeliveryRaises(t) ==
    /\ loop_free(t)
    /\ l_task[t].pc \in {"await_create_thread", "await_part_send"}
    /\ l_task' = [l_task EXCEPT ![t] = [@ EXCEPT !.pc = "returned"]]
    /\ UNCHANGED loop_rest

\* =================================================== parse_allowed_channels
COMMA == ","
COLON == ":"
MINUS == "-"
Digits == {"1", "2"}

\* the value of a decimal digit, and of a string of digits
digit(c) == IF c = "1" THEN 1 ELSE 2

RECURSIVE decimal(_)
decimal(s) ==
    IF s = <<>> THEN 0
    ELSE 10 * decimal(SubSeq(s, 1, Len(s) - 1)) + digit(s[Len(s)])

\* int(s): the integer written in s (blanks around it ignored), or ValueError
ValueError == [raised |-> TRUE, value |-> 0]

int(s) ==
    LET t == strip(s)
        negative == t # <<>> /\ t[1] = MINUS
        body == IF negative THEN Tail(t) ELSE t
    IN  IF body # <<>> /\ \A i \in 1..Len(body) : body[i] \in Digits
        THEN [raised |-> FALSE,
              value |-> IF negative THEN 0 - decimal(body) ELSE decimal(body)]
        ELSE ValueError

\* mutant: a malformed entry empties the set built so far
parse_entry_Reset(entry, allowed) ==
    IF Contains(entry, COLON)
    THEN LET halves == split(entry, COLON, 1)
             server_id == int(strip(halves[1]))
             channel_id == int(strip(halves[2]))
         IN  IF server_id.raised \/ channel_id.raised
             THEN {}
             ELSE allowed \cup {<<server_id.value, channel_id.value>>}
    ELSE {}

\* lines 60-67: the body of the loop, for one entry
parse_entry(entry, allowed) ==
    IF Contains(entry, COLON)
    THEN LET halves == split(entry, COLON, 1)
             server_id == int(strip(halves[1]))
             channel_id == int(strip(halves[2]))
         IN  IF server_id.raised \/ channel_id.raised
             THEN allowed
             ELSE allowed \cup {<<server_id.value, channel_id.value>>}
    ELSE allowed

\* line 59: the loop over the entries, from entry number k on
RECURSIVE entry_loop(_, _, _)
entry_loop(entries, k, allowed) ==
    IF k > Len(entries) THEN allowed
    ELSE entry_loop(entries, k + 1, parse_entry(entries[k], allowed))

\* lines 57-68
parse_allowed_channels(raw) == entry_loop(split(raw, COMMA, Len(raw)), 1, {})

ParseIdle ==
    /\ raw_channel_mapping = <<>>
    /\ parsed_channels = {}
    /\ ppc = "off"

\* the other specifications leave the bot at rest
HandlerIdle == allowed_channels = {} /\ HandlerInit

\* ----------------------------------------------------------------- Spec
SplitIdle ==
    /\ content = <<>>
    /\ max_length = 1
    /\ s_parts = <<>>
    /\ messages = <<>>
    /\ spc = "off"

AllowedIdle ==
    /\ a_message = NoMessage
    /\ a_allowed = {}
    /\ a_result = "off"

Init ==
    /\ allowed_channels \in AllowLists
    /\ HandlerInit
    /\ SplitIdle
    /\ AllowedIdle
    /\ MainIdle
    /\ LoopIdle
    /\ ParseIdle
    /\ program = "maindc"

\* the messages the platform can deliver now: the event loop hands a message
\* to handle_message when the handler of the previous one has returned.  The
\* content is varied in full for the messages the location check lets through
\* (the content of a dropped message is never read).
Arriving ==
    IF program = "maindc" /\ pc = "idle"
    THEN GateMessages
            \cup {m \in CommandMessages : is_allowed(m, allowed_channels)}
    ELSE {}

Next ==
    \/ \E m \in Arriving : IgnoreOwn(m)
    \/ \E m \in Arriving : Drop(m)
    \/ \E m \in Arriving : DeleteCommand(m)
    \/ \E m \in Arriving : NotMentioned(m)
    \/ \E m \in Arriving : FormatError(m)
    \/ \E m \in Arriving : UnknownName(m)
    \/ \E m \in Arriving : DispatchOpenAI(m)
    \/ \E m \in Arriving : \E result \in AnthropicResults : DispatchAnthropic(m, result)
    \/ DeleteReturns
    \/ DeleteRaises
    \/ ErrorSendReturns
    \/ ErrorSendRaises
    \/ \E result \in OpenAIResults : ProviderReturns(result)
    \/ CreateThreadReturns
    \/ CreateThreadRaises
    \/ PartSendReturns
    \/ PartSendRaises
    \/ NextMessage

Spec == Init /\ [][Next]_vars

\* ------------------------------------------------------------ SpecSplit
SplitChars == {TICK, "a"}

InitSplit ==
    /\ content \in SeqsUpTo(SplitChars, MaxTextLen)
    /\ max_length \in 1..MaxSplitLen
    /\ s_parts = <<>>
    /\ messages = <<>>
    /\ spc = "ready"
    /\ AllowedIdle
    /\ HandlerIdle
    /\ MainIdle
    /\ LoopIdle
    /\ ParseIdle
    /\ program = "maindc"

CallSplit ==
    /\ spc = "ready"
    /\ s_parts' = scan_parts(content)
    /\ messages' = split_positions(content, max_length)
    /\ spc' = "done"
    /\ UNCHANGED <<content, max_length, avars, hvars, mvars, lvars, pvars>>

NextSplit == CallSplit

SpecSplit == InitSplit /\ [][NextSplit]_vars

\* ---------------------------------------------------------- SpecAllowed
AnyGuild == {None, 1, 2}
AnyChannel == {1, 2, 3}
AnyLocation ==
    {Location(g, t, c, p) : g \in AnyGuild, t \in {"private", "text"} \cup ThreadTypes,
        c \in AnyChannel, p \in AnyChannel \cup {None}}

InitAllowed ==
    /\ a_message \in {Message(l, FALSE, FALSE, <<>>) : l \in AnyLocation}
    /\ a_allowed \in SUBSET ({1, 2} \X {1, 2})
    /\ a_result = "none"
    /\ SplitIdle
    /\ HandlerIdle
    /\ MainIdle
    /\ LoopIdle
    /\ ParseIdle
    /\ program = "maindc"

CallAllowed ==
    /\ a_result = "none"
    /\ a_result' = IF is_allowed(a_message, a_allowed) THEN "allowed" ELSE "rejected"
    /\ UNCHANGED <<a_message, a_allowed, svars, hvars, mvars, lvars, pvars>>

NextAllowed == CallAllowed

SpecAllowed == InitAllowed /\ [][NextAllowed]_vars

\* ------------------------------------------------------------- SpecMain
InitMain ==
    /\ MainInit
    /\ LoopIdle
    /\ ParseIdle
    /\ program = "main"
    /\ SplitIdle
    /\ AllowedIdle
    /\ HandlerIdle

NextMain ==
    \/ \E t \in TaskIds : \E m \in MainMessages(t) : main_IgnoreOwn(t, m)
    \/ \E t \in TaskIds : \E m \in MainMessages(t) : main_Drop(t, m)
    \/ \E t \in TaskIds : \E m \in MainMessages(t) : main_DeleteCommand(t, m)
    \/ \E t \in TaskIds : \E m \in MainMessages(t) : main_NotMentioned(t, m)
    \/ \E t \in TaskIds : \E m \in MainMessages(t) : main_NoTextFile(t, m)
    \/ \E t \in TaskIds : \E m \in MainMessages(t) : main_FoundTextFile(t, m)
    \/ \E t \in TaskIds : main_DeleteReturns(t)
    \/ \E t \in TaskIds : main_DeleteRaises(t)
    \/ \E t \in TaskIds : main_OpenWrite(t)
    \/ \E t \in TaskIds : main_SaveReturns(t)
    \/ \E t \in TaskIds : main_SaveRaises(t)
    \/ \E t \in TaskIds : main_OpenRead(t)
    \/ \E t \in TaskIds : main_Read(t)
    \/ \E t \in TaskIds : main_RemoveAndParse(t)
    \/ \E t \in TaskIds : \E result \in MainResults : main_ProviderReturns(t, result)
    \/ \E t \in TaskIds : main_CreateThreadReturns(t)
    \/ \E t \in TaskIds : main_CreateThreadRaises(t)
    \/ \E t \in TaskIds : main_ReplySendReturns(t)
    \/ \E t \in TaskIds : main_ReplySendRaises(t)
    \/ \E t \in TaskIds : main_ErrorSendReturns(t)
    \/ \E t \in TaskIds : main_ErrorSendRaises(t)
    \/ \E t \in TaskIds : main_ReportSendReturns(t)
    \/ \E t \in TaskIds : main_ReportSendRaises(t)

SpecMain == InitMain /\ [][NextMain]_vars

\* ------------------------------------------------------------- SpecLoop
InitLoop ==
    /\ LoopInit
    /\ MainIdle
    /\ ParseIdle
    /\ program = "maindc"
    /\ SplitIdle
    /\ AllowedIdle
    /\ HandlerIdle

NextLoop ==
    \/ \E t \in TaskIds : loop_Skip(t)
    \/ \E t \in TaskIds : loop_PlatformCall(t)
    \/ \E t \in TaskIds : loop_PlatformReturns(t)
    \/ \E t \in TaskIds : \E name \in DOMAIN NAME_MAPPING : \E th \in BOOLEAN :
            loop_DispatchOpenAI(t, name, th)
    \/ \E t \in TaskIds : \E name \in DOMAIN NAME_MAPPING : \E th \in BOOLEAN :
            loop_CallAnthropic(t, name, th)
    \/ \E t \in TaskIds : \E n \in LoopParts : loop_ProviderReturns(t, n)
    \/ \E t \in TaskIds : \E n \in LoopParts : loop_AnthropicReturns(t, n)
    \/ \E t \in TaskIds : loop_CreateThreadReturns(t)
    \/ \E t \in TaskIds : loop_PartSendReturns(t)
    \/ \E t \in TaskIds : loop_DeliveryRaises(t)

SpecLoop == InitLoop /\ [][NextLoop]_vars

\* ------------------------------------------------------------- SpecBots
\* either script of the repository is started (maindc.py lines 643-644,
\* main.py lines 254-255) and handles the messages that arrive
InitBots == Init \/ InitMain

NextBots ==
    \/ \E m \in Arriving : IgnoreOwn(m)
    \/ \E m \in Arriving : Drop(m)
    \/ \E m \in Arriving : DeleteCommand(m)
    \/ \E m \in Arriving : NotMentioned(m)
    \/ \E m \in Arriving : FormatError(m)
    \/ \E m \in Arriving : UnknownName(m)
    \/ \E m \in Arriving : DispatchOpenAI(m)
    \/ \E m \in Arriving : \E result \in AnthropicResults : DispatchAnthropic(m, result)
    \/ DeleteReturns
    \/ DeleteRaises
    \/ ErrorSendReturns
    \/ ErrorSendRaises
    \/ \E result \in OpenAIResults : ProviderReturns(result)
    \/ CreateThreadReturns
    \/ CreateThreadRaises
    \/ PartSendReturns
    \/ PartSendRaises
    \/ NextMessage
    \/ \E t \in TaskIds : \E m \in MainMessages(t) : main_IgnoreOwn(t, m)
    \/ \E t \in TaskIds : \E m \in MainMessages(t) : main_Drop(t, m)
    \/ \E t \in TaskIds : \E m \in MainMessages(t) : main_DeleteCommand(t, m)
    \/ \E t \in TaskIds : \E m \in MainMessages(t) : main_NotMentioned(t, m)
    \/ \E t \in TaskIds : \E m \in MainMessages(t) : main_NoTextFile(t, m)
    \/ \E t \in TaskIds : \E m \in MainMessages(t) : main_FoundTextFile(t, m)
    \/ \E t \in TaskIds : main_DeleteReturns(t)
    \/ \E t \in TaskIds : main_DeleteRaises(t)
    \/ \E t \in TaskIds : main_OpenWrite(t)
    \/ \E t \in TaskIds : main_SaveReturns(t)
    \/ \E t \in TaskIds : main_SaveRaises(t)
    \/ \E t \in TaskIds : main_OpenRead(t)
    \/ \E t \in TaskIds : main_Read(t)
    \/ \E t \in TaskIds : main_RemoveAndParse(t)
    \/ \E t \in TaskIds : \E result \in MainResults : main_ProviderReturns(t, result)
    \/ \E t \in TaskIds : main_CreateThreadReturns(t)
    \/ \E t \in TaskIds : main_CreateThreadRaises(t)
    \/ \E t \in TaskIds : main_ReplySendReturns(t)
    \/ \E t \in TaskIds : main_ReplySendRaises(t)
    \/ \E t \in TaskIds : main_ErrorSendReturns(t)
    \/ \E t \in TaskIds : main_ErrorSendRaises(t)
    \/ \E t \in TaskIds : main_ReportSendReturns(t)
    \/ \E t \in TaskIds : main_ReportSendRaises(t)

SpecBots == InitBots /\ [][NextBots]_vars

\* ------------------------------------------------------------ SpecParse
MaxConfigLen == 5       \* longest configuration text

ConfigChars == {COMMA, COLON, SPACE, MINUS, "x"} \cup Digits

InitParse ==
    /\ raw_channel_mapping \in SeqsUpTo(ConfigChars, MaxConfigLen)
    /\ parsed_channels = {}
    /\ ppc = "ready"
    /\ program = "maindc"
    /\ SplitIdle
    /\ AllowedIdle
    /\ HandlerIdle
    /\ MainIdle
    /\ LoopIdle

CallParse ==
    /\ ppc = "ready"
    /\ parsed_channels' = parse_allowed_channels(raw_channel_mapping)
    /\ ppc' = "done"
    /\ UNCHANGED <<raw_channel_mapping, program, svars, avars, hvars, mvars, lvars>>

NextParse == CallParse

SpecParse == InitParse /\ [][NextParse]_vars

returned == [k \in 1..Len(messages) |-> Str(content, messages[k])]

\* ------------------------------------------------- claims on split_message
\* the fenced regions of a text, found by reading it left to right: at an
\* opening fence that has a closing fence after it, the region runs to the end
\* of the nearest closing fence and reading resumes behind it
RECURSIVE FencedRegions(_, _)
FencedRegions(s, i) ==
    IF i + 6 > Len(s) THEN {}
    ELSE IF FenceAt(s, i) /\ \E j \in (i + 3)..Len(s) : FenceAt(s, j)
         THEN LET j == Min({c \in (i + 3)..Len(s) : FenceAt(s, c)})
              IN  {<<i, j + 3>>} \cup FencedRegions(s, j + 3)
         ELSE FencedRegions(s, i + 1)

\* the positions of chunk c are consecutive positions of the input
Contiguous(c) == \A j \in 1..(Len(c) - 1) : c[j + 1] = c[j] + 1

\* chunk c holds the positions a+1..b of the input side by side
HoldsWhole(c, a, b) ==
    \E j \in 1..Len(c) :
        /\ j + (b - a) - 1 <= Len(c)
        /\ \A d \in 1..(b - a) : c[j + d - 1] = a + d

\* C1: the chunks returned by split_message, concatenated in list order, are
\* exactly the text: no character is lost, duplicated or moved.
C1_ConcatIsText == spc = "done" => Concat(returned) = content

\* C2: every chunk returned by split_message has at most max_length characters.
C2_ChunkLength ==
    spc = "done" => \A k \in 1..Len(messages) : Len(messages[k]) <= max_length

\* C2 witness: a text longer than max_length was split and one of the chunks
\* is exactly max_length long.
C2_Witness ==
    /\ spc = "done"
    /\ Len(content) > max_length
    /\ Len(messages) >= 2
    /\ \E k \in 1..Len(messages) : Len(messages[k]) = max_length

\* C3: every fenced region of the text that is at most max_length long lies
\* whole inside one returned chunk: no chunk boundary falls inside it.
C3_FenceIntact ==
    spc = "done" =>
        \A r \in FencedRegions(content, 0) :
            r[2] - r[1] <= max_length =>
                \E k \in 1..Len(messages) : HoldsWhole(messages[k], r[1], r[2])

\* C3 witness: a text longer than max_length with plain text before a fenced
\* region that fits, split into several chunks.
C3_Witness ==
    /\ spc = "done"
    /\ Len(content) > max_length
    /\ Len(messages) >= 2
    /\ \E r \in FencedRegions(content, 0) :
            r[1] > 0 /\ r[2] - r[1] <= max_length /\ r[2] > max_length

\* C4: split_message never reorders: every returned chunk is a run of
\* consecutive characters of the input and the chunks start at strictly
\* increasing offsets, in list order.
C4_InOrder ==
    spc = "done" =>
        /\ \A k \in 1..Len(messages) : Contiguous(messages[k])
        /\ \A k \in 1..Len(messages) : \A l \in 1..Len(messages) :
              (k < l /\ messages[k] # <<>> /\ messages[l] # <<>>)
                  => messages[k][1] < messages[l][1]

\* ---------------------------------------------------- claim on is_allowed
\* C5: is_allowed returns false for a direct-message channel; for a public or
\* private thread, true exactly when the thread has a parent and (guild id,
\* parent id) is in the allow-list, whatever the thread's own id; for any other
\* channel, true exactly when (guild id, channel id) is in the allow-list.
C5_Expected ==
    CASE a_message.channel_type = "private" -> "rejected"
      [] a_message.channel_type \in {"public_thread", "private_thread"} ->
            IF a_message.parent # None
               /\ <<a_message.guild, a_message.parent>> \in a_allowed
            THEN "allowed" ELSE "rejected"
      [] OTHER ->
            IF <<a_message.guild, a_message.channel_id>> \in a_allowed
            THEN "allowed" ELSE "rejected"

C5_IsAllowed == a_result \in {"allowed", "rejected"} => a_result = C5_Expected

\* C5 witness: a thread accepted through its parent although its own id is not
\* in the allow-list.
C5_Witness ==
    /\ a_result = "allowed"
    /\ a_message.channel_type = "public_thread"
    /\ <<a_message.guild, a_message.parent>> \in a_allowed
    /\ <<a_message.guild, a_message.channel_id>> \notin a_allowed

\* ------------------------------------------------ claims on handle_message
\* the handler of the current message has returned
Handled == pc = "returned"

\* the current message passed the author and location checks of lines 515-520
Authorized == ~message.author_is_bot /\ is_allowed(message, allowed_channels)

\* the space-separated tokens of the first line, trailing whitespace stripped
\* from every line first
Tokens == split(first_line(message.content), SPACE, 2)

\* the prompt of the specification's parse: the rest of the first line, a
\* newline, the lines after the first, the whole trimmed
ParsedPrompt ==
    strip(join(Tail(Tail(Tokens)), SPACE) \o <<NEWLINE>>
            \o join(remaining_lines(message.content), NEWLINE))

\* C6: for a mention message whose first line has at least 3 tokens, the
\* selector is the second token and the prompt passed to the provider is the
\* trimmed rest-of-first-line + newline + remaining lines.
C6_PromptIsParse ==
    \A k \in 1..Len(provider_calls) :
        /\ Len(Tokens) >= 3
        /\ \E n \in DOMAIN NAME_MAPPING :
              Tokens[2] = <<n>> /\ provider_calls[k].model = NAME_MAPPING[n]
        /\ provider_calls[k].prompt = ParsedPrompt

\* C7 as stated: an authorized mention message whose first line has fewer than
\* 3 tokens ends in a format error: one explanatory message to the inbound
\* channel, no provider call, no thread.
C7_AsStated ==
    (Handled /\ Authorized /\ message.mentioned /\ Len(Tokens) < 3) =>
        /\ sends = <<Send(Channel(message.channel_id), "format_error", <<>>)>>
        /\ provider_calls = <<>>
        /\ threads_created = <<>>

\* the deletion command: in a thread, content that trims to !del
DeletionCommand ==
    /\ message.channel_type \in {"public_thread", "private_thread"}
    /\ strip(message.content) = <<DEL>>

\* C7 amended: an authorized mention message that is not the in-thread
\* deletion command and whose first line has fewer than 3 tokens ends in a
\* format error: one explanatory message to the inbound channel, no provider
\* call, no thread created.
C7_FormatError ==
    (Handled /\ Authorized /\ message.mentioned /\ ~DeletionCommand
        /\ Len(Tokens) < 3) =>
        /\ sends = <<Send(Channel(message.channel_id), "format_error", <<>>)>>
        /\ provider_calls = <<>>
        /\ threads_created = <<>>
        /\ threads_deleted = <<>>

\* C7 witness: a registered selector on the first line and the prompt on the
\* next line, reported as a format error.
C7_Witness ==
    /\ Handled /\ Authorized /\ message.mentioned
    /\ message.content = <<"opus", SPACE, "opus", NEWLINE, "opus">>
    /\ outcome = "reported"
    /\ Len(sends) = 1

\* C8: a well-formed command (an authorized mention message that reaches the
\* parser and has at least 3 tokens on its first line) whose selector is not
\* exactly a key of NAME_MAPPING gets one message naming the selector on the
\* inbound channel; no provider is called and no thread is created.
C8_UnknownSelector ==
    (Handled /\ Authorized /\ message.mentioned /\ ~DeletionCommand
        /\ Len(Tokens) >= 3
        /\ \A n \in DOMAIN NAME_MAPPING : Tokens[2] # <<n>>) =>
        /\ sends = <<Send(Channel(message.channel_id), "unknown_name", Tokens[2])>>
        /\ provider_calls = <<>>
        /\ threads_created = <<>>

\* C8 witness: the selector OPUS, which differs from a key only by case.
C8_Witness ==
    /\ Handled /\ Authorized /\ message.mentioned
    /\ Len(Tokens) >= 3
    /\ Tokens[2] = <<"OPUS">>
    /\ outcome = "reported"
    /\ sends[1].body = <<"OPUS">>

\* C9: every registered selector is sent to the provider that owns its model
\* id, with that model id and the parsed prompt: claude model ids go to the
\* Anthropic client, the others to the OpenAI client.
C9_ProviderOwnsModel ==
    \A k \in 1..Len(provider_calls) :
        /\ \E n \in DOMAIN NAME_MAPPING :
              Tokens[2] = <<n>> /\ provider_calls[k].model = NAME_MAPPING[n]
        /\ provider_calls[k].prompt = user_message(message.content)
        /\ provider_calls[k].client =
              IF provider_calls[k].model \in AnthropicModels
              THEN "anthropic" ELSE "openai"

\* C10: on any provider failure (an exception, an unexpected response shape)
\* fetch_anthropic_response and fetch_openai_response return one and the same
\* fixed apology string.
C10_OneApology ==
    provider_result.kind \in {"raise", "bad_shape"} => reply = APOLOGY

\* the platform operations and provider calls made for the current message
NoEffect ==
    /\ sends = <<>>
    /\ provider_calls = <<>>
    /\ threads_created = <<>>
    /\ threads_deleted = <<>>

\* C11: whenever an unexpected failure occurs while an authorized message is
\* processed (thread creation, a send or a deletion raises), a generic failure
\* message is sent to the user: the message ends Reported, not only logged.
C11_FailureReported ==
    outcome = "failed" =>
        \E k \in 1..Len(sends) : sends[k].kind = "failure_report"

\* C13: a message from a location for which is_allowed is false is dropped
\* silently (no send, no thread creation, no thread deletion, no provider call,
\* no error entry), and for every message the authorization check precedes
\* every such effect.
C13_SilentDrop ==
    /\ ~NoEffect => Authorized
    /\ (Handled /\ ~message.author_is_bot
            /\ ~is_allowed(message, allowed_channels)) =>
          /\ outcome = "dropped"
          /\ NoEffect
          /\ error_log = <<>>

\* C13 witness: a well-formed command that mentions the bot, sent in a guild
\* text channel that is not in the allow-list, was dropped.
C13_Witness ==
    /\ Handled
    /\ outcome = "dropped"
    /\ message.channel_type = "text"
    /\ message.guild # None
    /\ message.mentioned
    /\ message.content = <<"opus", SPACE, "opus", SPACE, "opus">>

\* C14: an authorized message inside a thread whose trimmed content equals
\* !del causes exactly one deletion call on that thread and is terminal (no
\* provider call, no send, no thread creation), mentioned or not; a message
\* outside a thread never causes a deletion.
C14_Deletion ==
    /\ Len(threads_deleted) <= 1
    /\ (Handled /\ Authorized /\ DeletionCommand) =>
          /\ threads_deleted = <<message.channel_id>>
          /\ sends = <<>>
          /\ provider_calls = <<>>
          /\ threads_created = <<>>
    /\ message.channel_type \notin {"public_thread", "private_thread"} =>
          threads_deleted = <<>>

\* C14 witness: the deletion command with a trailing newline, in a message that
\* mentions the bot, deleted the thread.
C14_Witness ==
    /\ Handled
    /\ outcome = "deleted"
    /\ message.mentioned
    /\ message.content = <<DEL, NEWLINE>>
    /\ threads_deleted = <<message.channel_id>>

\* where the parts of the reply to the current message belong
Destination ==
    IF message.channel_type \in {"public_thread", "private_thread"}
    THEN Channel(message.channel_id)
    ELSE NewThread

\* C15: after a dispatch the chunks go to one destination in segmenter order,
\* each send completing before the next starts: in a thread, to that thread
\* and no thread is created; otherwise exactly one thread is created on the
\* inbound message before the first send and every chunk goes to it.
C15_Delivery ==
    provider_calls # <<>> =>
        /\ Len(sends) <= Len(split_replies)
        /\ \A k \in 1..Len(sends) :
              sends[k] = Send(Destination, "part", split_replies[k])
        /\ Len(sends) <= sent_parts + 1
        /\ (pc = "await_part_send") => Len(sends) = sent_parts + 1
        /\ Destination = NewThread =>
              /\ Len(threads_created) <= 1
              /\ sends # <<>> =>
                    (Len(threads_created) = 1 /\ target_channel = NewThread)
        /\ Destination # NewThread => threads_created = <<>>
        /\ outcome = "delivered" =>
              /\ split_replies = split_message(reply, MaxChunk)
              /\ Len(sends) = Len(split_replies)
              /\ Destination = NewThread => Len(threads_created) = 1

\* C15 witness: a reply of two chunks delivered to a newly created thread.
C15_Witness ==
    /\ outcome = "delivered"
    /\ Destination = NewThread
    /\ Len(threads_created) = 1
    /\ Len(split_replies) = 2
    /\ Len(sends) = 2

\* C15 witness in a thread: two chunks delivered in place.
C15_WitnessInThread ==
    /\ outcome = "delivered"
    /\ Destination # NewThread
    /\ threads_created = <<>>
    /\ Len(sends) = 2

\* ------------------------------------------ more claims on split_message
\* the part of the scan that starts at position p of the text
PartAt(p) == CHOOSE part \in {scan_parts(content)[k] : k \in 1..Len(scan_parts(content))} :
                part[1] = p

PartStarts == {scan_parts(content)[k][1] : k \in 1..Len(scan_parts(content))}

AllPartsFit ==
    \A k \in 1..Len(scan_parts(content)) : Len(scan_parts(content)[k]) <= max_length

\* C19: for a text that is exactly one fenced block of length L > max_length,
\* split_message returns the ceil(L / max_length) consecutive slices of
\* max_length characters of the block (the last may be shorter), with no
\* character added.
C19_ForcedSlices ==
    (spc = "done" /\ Len(content) > max_length
        /\ FencedRegions(content, 0) = {<<0, Len(content)>>}) =>
        /\ Len(messages) = (Len(content) + max_length - 1) \div max_length
        /\ \A k \in 1..Len(messages) :
              messages[k] = Span((k - 1) * max_length,
                                 Min({k * max_length, Len(content)}))

\* C19 witness: one fenced block of one and a half times max_length, returned
\* as a full slice and a half slice.
C19_Witness ==
    /\ spc = "done"
    /\ FencedRegions(content, 0) = {<<0, Len(content)>>}
    /\ 2 * Len(content) = 3 * max_length
    /\ Len(messages) = 2
    /\ Len(messages[1]) = max_length
    /\ 2 * Len(messages[2]) = max_length

\* C20: when every part of the text (plain or fenced) is at most max_length
\* long, the chunks are the greedy grouping of the parts: each chunk is a run
\* of whole consecutive parts of at most max_length characters, and a chunk
\* ends only where the next part would have made it longer than max_length (a
\* chunk of exactly max_length is kept until then).
C20_Greedy ==
    (spc = "done" /\ AllPartsFit) =>
        /\ Concat(messages) = Span(0, Len(content))
        /\ \A k \in 1..Len(messages) :
              /\ messages[k] # <<>>
              /\ messages[k][1] \in PartStarts
              /\ Len(messages[k]) <= max_length
        /\ \A k \in 1..(Len(messages) - 1) :
              Len(messages[k]) + Len(PartAt(messages[k + 1][1])) > max_length

\* C20 witness: a running chunk of two parts that is exactly max_length long,
\* followed by another chunk.
C20_Witness ==
    /\ spc = "done"
    /\ AllPartsFit
    /\ Len(messages) >= 2
    /\ Len(messages[1]) = max_length
    /\ \E j \in 2..Len(messages[1]) : messages[1][j] \in PartStarts

\* ------------------------------------------------------ claims on main.py
\* C12: handle_message never lets an exception escape to the event loop,
\* whichever provider call or platform operation fails (a send, a thread
\* creation, a thread deletion, the send of the failure report itself): the
\* handler returns normally.
C12_NoEscape == \A t \in TaskIds : m_task[t].outcome # "escaped"

\* C17: in main.py two in-flight messages that each carry a .txt attachment
\* (also under the same file name) share no mutable state: what
\* process_attachments extracts for a message is the parse of that message's
\* own attachment, and no message fails because of the other.
C17_OwnAttachment ==
    \A t \in TaskIds :
        (/\ m_task[t].extracted.error # "pending"
         /\ first_txt(m_task[t].message.attachments) # 0
         /\ ~m_task[t].save_failed) =>
            m_task[t].extracted = parse_attachment(m_task[t].txt_file.data)

\* the text has a character that is not whitespace
NonBlank(text) == \E i \in 1..Len(text) : text[i] \notin Whitespace

\* C18: no provider is called with an empty or whitespace-only prompt, and in
\* main.py a command whose prompt is empty is answered with the empty-prompt
\* message before any dispatch.
C18_EmptyPromptReported ==
    \A t \in TaskIds :
        /\ \A k \in 1..Len(m_task[t].provider_calls) :
              NonBlank(m_task[t].provider_calls[k].prompt)
        /\ (m_task[t].extracted.error = "none"
                /\ m_task[t].extracted.user_message = <<>>) =>
              /\ m_task[t].provider_calls = <<>>
              /\ m_task[t].sends # <<>>
              /\ m_task[t].sends[1].kind = "empty_prompt"

\* ------------------------------------------- claim on the event loop
\* a step of the handling of task q
loop_Step(q) ==
    \/ loop_Skip(q)
    \/ loop_PlatformCall(q)
    \/ loop_PlatformReturns(q)
    \/ \E name \in DOMAIN NAME_MAPPING : \E th \in BOOLEAN :
            loop_DispatchOpenAI(q, name, th)
    \/ \E name \in DOMAIN NAME_MAPPING : \E th \in BOOLEAN :
            loop_CallAnthropic(q, name, th)
    \/ \E n \in LoopParts : loop_ProviderReturns(q, n)
    \/ \E n \in LoopParts : loop_AnthropicReturns(q, n)
    \/ loop_CreateThreadReturns(q)
    \/ loop_PartSendReturns(q)
    \/ loop_DeliveryRaises(q)

\* the event loop runs every task that can run (asyncio keeps the ready tasks
\* in a queue), and every awaited call returns or raises in the end
SpecLoopFair == SpecLoop /\ \A t \in TaskIds : WF_vars(loop_Step(t))

\* C16: while the provider call of one message is outstanding, whichever
\* client serves its selector, the handling of another inbound message that
\* has not finished can take a step.
C16_NonBlocking ==
    \A p \in TaskIds : \A q \in TaskIds \ {p} :
        (/\ l_task[p].pc \in {"await_provider", "in_anthropic_call"}
         /\ l_task[q].pc # "returned") =>
            ENABLED loop_Step(q)

\* ------------------------------------------ claim on parse_allowed_channels
\* the entries of the configuration text: the stretches between commas, as
\* <<first, last>> positions (last = first - 1 for an empty entry)
EntrySpans ==
    {e \in (1..(Len(raw_channel_mapping) + 1)) \X (0..Len(raw_channel_mapping)) :
        /\ e[2] >= e[1] - 1
        /\ e[1] = 1 \/ raw_channel_mapping[e[1] - 1] = COMMA
        /\ e[2] = Len(raw_channel_mapping) \/ raw_channel_mapping[e[2] + 1] = COMMA
        /\ \A i \in e[1]..e[2] : raw_channel_mapping[i] # COMMA}

\* the positions a..b of the text hold an integer with blanks around it: the
\* set of its values (empty if they hold none)
IntegerIn(a, b) ==
    {v \in {0} : FALSE} \cup
    UNION {{IF raw_channel_mapping[i] = MINUS
            THEN 0 - decimal(SubSeq(raw_channel_mapping, i + 1, j))
            ELSE decimal(SubSeq(raw_channel_mapping, i, j))} :
           <<i, j>> \in {w \in (a..b) \X (a..b) :
               /\ w[1] <= w[2]
               /\ \A k \in a..(w[1] - 1) : raw_channel_mapping[k] \in Whitespace
               /\ \A k \in (w[2] + 1)..b : raw_channel_mapping[k] \in Whitespace
               /\ \/ \A k \in w[1]..w[2] : raw_channel_mapping[k] \in Digits
                  \/ /\ raw_channel_mapping[w[1]] = MINUS
                     /\ w[1] < w[2]
                     /\ \A k \in (w[1] + 1)..w[2] : raw_channel_mapping[k] \in Digits}}

\* the pairs of the entries with one colon and an integer on either side
WellFormedPairs ==
    UNION {UNION {IntegerIn(e[1], c - 1) \X IntegerIn(c + 1, e[2]) :
                    c \in {i \in e[1]..e[2] :
                            /\ raw_channel_mapping[i] = COLON
                            /\ \A k \in e[1]..(i - 1) : raw_channel_mapping[k] # COLON}} :
           e \in EntrySpans}

\* C25: parse_allowed_channels returns exactly the (serverId, channelId) pairs
\* of the comma-separated entries that have a colon and an integer on either
\* side of the first colon (blanks around them ignored); every other entry
\* (no colon, a component that is no integer, a second colon) is skipped
\* without raising and without effect on the other entries.
C25_ParsedPairs == ppc = "done" => parsed_channels = WellFormedPairs

\* C25 witness: a malformed entry behind a well-formed one, which is kept.
C25_Witness ==
    /\ ppc = "done"
    /\ raw_channel_mapping = <<"1", COLON, "2", COMMA, "x">>
    /\ parsed_channels = {<<1, 2>>}

\* ------------------------------------------------- claims on main.py
\* the kinds of message main.py sends to tell the user of an error
main_ErrorKinds == {"error", "format_error", "unknown_name", "empty_prompt"}

\* C21: in main.py, when the message carries an attachment the inline text is
\* no fallback: the selector and the prompt of every provider call are the
\* ones extracted from the attachment, and an attachment that fails the
\* extraction (no .txt file, no '/' on the first line, unreadable file, empty
\* prompt after the '/') ends in a reported error and no provider call.
C21_NoInlineFallback ==
    \A t \in TaskIds :
        m_task[t].message.attachments # <<>> =>
            /\ \A k \in 1..Len(m_task[t].provider_calls) :
                  /\ m_task[t].extracted.error = "none"
                  /\ m_task[t].provider_calls[k].prompt = m_task[t].extracted.user_message
                  /\ m_task[t].provider_calls[k].model =
                        main_name_mapping_get(m_task[t].extracted.model_name)
            /\ (/\ m_task[t].extracted.error # "pending"
                /\ \/ m_task[t].extracted.error # "none"
                   \/ m_task[t].extracted.user_message = <<>>) =>
                  /\ m_task[t].provider_calls = <<>>
                  /\ m_task[t].sends # <<>>
                  /\ m_task[t].sends[1].kind \in main_ErrorKinds

\* C22: in main.py an authorized mention message without attachment whose
\* inline text is a well-formed command with a registered selector reaches the
\* provider with the inline prompt and is not reported as an error for lacking
\* an attachment.
C22_InlineDispatched ==
    \A t \in TaskIds :
        (/\ m_task[t].pc # "idle"
         /\ main_Accepted(m_task[t].message)
         /\ ~main_IsDelete(m_task[t].message)
         /\ m_task[t].message.mentioned
         /\ m_task[t].message.attachments = <<>>
         /\ Len(command_parts(m_task[t].message.content)) >= 3
         /\ main_name_mapping_get(main_inline_name(m_task[t].message.content)) # NoModel) =>
            /\ \A k \in 1..Len(m_task[t].sends) :
                  m_task[t].sends[k].kind \notin main_ErrorKinds
            /\ m_task[t].provider_calls =
                  <<ProviderCall("openai",
                        main_name_mapping_get(main_inline_name(m_task[t].message.content)),
                        main_inline_message(m_task[t].message.content))>>

\* C23: in main.py a message posted in a thread whose parent channel is in the
\* allow-list is authorized although the thread's own id is not listed: it is
\* not dropped by the allow-list gate.
C23_ThreadInherits ==
    \A t \in TaskIds :
        (/\ m_task[t].pc # "idle"
         /\ ~m_task[t].message.author_is_bot
         /\ m_task[t].message.guild # None
         /\ m_task[t].message.is_thread
         /\ <<m_task[t].message.guild, m_task[t].message.parent>> \in main_allowed_channels) =>
            m_task[t].outcome # "dropped"

\* ------------------------------------- further claims on handle_message
\* C26: in maindc.py the provider is invoked at most once per inbound message:
\* a call that failed is not made again, and no call is made for a message
\* that was answered with an error message.
C26_AtMostOnce ==
    /\ Len(provider_calls) <= 1
    /\ provider_result.kind # "none" => Len(provider_calls) = 1
    /\ (\E k \in 1..Len(sends) : sends[k].kind \in {"format_error", "unknown_name"}) =>
          provider_calls = <<>>

\* C26 witness: the provider call raised, the apology was delivered, and the
\* one call is all there was.
C26_Witness ==
    /\ pc = "returned"
    /\ outcome = "delivered"
    /\ provider_result.kind = "raise"
    /\ Len(provider_calls) = 1
    /\ sends # <<>>

\* C27: handling a message, whatever its outcome, leaves the allow-list and
\* the NAME_MAPPING registry as they were at startup: no step changes either.
C27_ReadOnly ==
    [][allowed_channels' = allowed_channels /\ name_mapping' = name_mapping]_vars

\* C27 witness: a message was handled to the end (delivered, failed, reported
\* or thread deleted) under a non-empty allow-list and the registry of lines
\* 11-23.
C27_Witness ==
    /\ pc = "returned"
    /\ outcome \in {"delivered", "failed", "reported", "deleted"}
    /\ allowed_channels # {}
    /\ name_mapping = NAME_MAPPING

\* C28: in maindc.py a thread created for a reply gets at least one message
\* when no send fails: it is never left empty, also when the reply is empty
\* after trimming or split_message returns no chunk.
C28_ThreadNotEmpty ==
    (pc = "returned" /\ outcome = "delivered" /\ threads_created # <<>>) =>
        \E k \in 1..Len(sends) : sends[k].channel = NewThread

\* ------------------------------------------- further claim on split_message
\* C29: split_message never returns an empty chunk: for every text and every
\* max_length > 0 each element of the returned list has at least one
\* character.
C29_NoEmptyChunk ==
    spc = "done" => \A k \in 1..Len(returned) : Len(returned[k]) >= 1

\* C29 witness: a text with backticks cut into three or more chunks, the last
\* of them a single character.
C29_Witness ==
    /\ spc = "done"
    /\ \E i \in 1..Len(content) : content[i] = TICK
    /\ Len(returned) >= 3
    /\ Len(returned[Len(returned)]) = 1

\* ------------------------------------------- claims on both handlers
\* task t of main.py has made no platform operation, no provider call and has
\* not touched the attachment
main_NoEffect(t) ==
    /\ m_task[t].sends = <<>>
    /\ m_task[t].provider_calls = <<>>
    /\ m_task[t].threads_created = <<>>
    /\ m_task[t].threads_deleted = <<>>
    /\ m_task[t].handle = NoInode
    /\ m_task[t].extracted = NotExtracted

\* C24: in maindc.py and in main.py an authorized message that is not the
\* deletion command and does not mention the bot causes no provider call and
\* no platform operation, with or without attachments.
C24_MentionRequired ==
    /\ (/\ program = "maindc"
        /\ pc # "idle"
        /\ Accepted(message)
        /\ ~IsDelete(message)
        /\ ~message.mentioned) =>
          /\ NoEffect
          /\ error_log = <<>>
          /\ outcome = "not_mentioned"
    /\ \A t \in TaskIds :
          (/\ program = "main"
           /\ m_task[t].pc # "idle"
           /\ main_Accepted(m_task[t].message)
           /\ ~main_IsDelete(m_task[t].message)
           /\ ~m_task[t].message.mentioned) =>
              /\ main_NoEffect(t)
              /\ m_task[t].outcome = "not_mentioned"

\* C24 witness: main.py has returned from a message with a .txt attachment
\* that does not mention the bot.
C24_Witness ==
    /\ program = "main"
    /\ \E t \in TaskIds :
          /\ m_task[t].pc = "returned"
          /\ main_Accepted(m_task[t].message)
          /\ ~m_task[t].message.mentioned
          /\ first_txt(m_task[t].message.attachments) # 0
          /\ m_task[t].outcome = "not_mentioned"

\* C24 witness for maindc.py: a well-formed command without a mention, in an
\* allowed text channel, was handled.
C24_WitnessCommand ==
    /\ program = "maindc"
    /\ pc = "returned"
    /\ Accepted(message)
    /\ ~message.mentioned
    /\ WellFormed(message)
    /\ name_mapping_get(command_name(message.content)) # NoModel
    /\ outcome = "not_mentioned"

\* C30: a message authored by the bot itself is never processed: no send, no
\* thread creation, no thread deletion and no provider call, whatever its
\* content ('!del', a mention, an attachment) and wherever it was posted.
C30_OwnIgnored ==
    /\ (program = "maindc" /\ pc # "idle" /\ message.author_is_bot) =>
          /\ NoEffect
          /\ error_log = <<>>
          /\ outcome = "ignored"
    /\ \A t \in TaskIds :
          (program = "main" /\ m_task[t].pc # "idle"
              /\ m_task[t].message.author_is_bot) =>
              /\ main_NoEffect(t)
              /\ m_task[t].outcome = "ignored"

\* C30 witness: maindc.py has returned from the bot's own '!del' that
\* mentions the bot, posted in a thread under an allowed channel.
C30_Witness ==
    /\ program = "maindc"
    /\ pc = "returned"
    /\ message.author_is_bot
    /\ message.mentioned
    /\ is_thread(message)
    /\ is_allowed(message, allowed_channels)
    /\ strip(message.content) = <<DEL>>

\* C30 witness for main.py: the bot's own command with an attachment, in a
\* thread that is in the allow-list.
C30_WitnessMain ==
    /\ program = "main"
    /\ \E t \in TaskIds :
          /\ m_task[t].pc = "returned"
          /\ m_task[t].message.author_is_bot
          /\ m_task[t].message.mentioned
          /\ m_task[t].message.is_thread
          /\ <<m_task[t].message.guild, m_task[t].message.channel_id>> \in main_allowed_channels
          /\ m_task[t].message.attachments # <<>>

\* ------------------------------------------------ claim on termination
\* C31: with a fair event loop, and every provider call and platform
\* operation returning or raising in the end, the handling of every inbound
\* message of maindc.py reaches a terminal state (dropped, thread deleted,
\* error reported, all chunks delivered, failure logged), also while another
\* message is in flight.
C31_Terminates == \A t \in TaskIds : <>[](l_task[t].pc = "returned")

\* C31 witness: both messages were dispatched, one to the synchronous
\* Anthropic client and one to the OpenAI client, and both handlers are
\* through, the first with all its parts sent to a new thread.
C31_Witness ==
    /\ \A t \in TaskIds : l_task[t].pc = "returned"
    /\ provider_of(<<l_task[1].name>>) = "anthropic"
    /\ ~l_task[1].in_thread
    /\ l_task[1].left = 0
    /\ l_task[2].name \in DOMAIN NAME_MAPPING
    /\ provider_of(<<l_task[2].name>>) = "openai"

\* ------------------------------------------------ claim on the fence scan
\* part number k of the scan, as <<a, b>>: it holds the text from offset a
\* (0-based) up to offset b (exclusive)
PartSpan(k) == <<s_parts[k][1] - 1, s_parts[k][Len(s_parts[k])]>>

\* part number k is a fenced part: it opens with a fence and ends with the
\* first fence that follows the opening one
FencedPart(k) ==
    /\ Len(s_parts[k]) >= 6
    /\ FenceAt(content, PartSpan(k)[1])
    /\ FenceAt(content, PartSpan(k)[2] - 3)
    /\ \A j \in (PartSpan(k)[1] + 3)..(PartSpan(k)[2] - 4) : ~FenceAt(content, j)

\* an opening fence at offset i that no fence closes
Unclosed(i) ==
    /\ FenceAt(content, i)
    /\ \A j \in (i + 3)..Len(content) : ~FenceAt(content, j)
    /\ \A r \in FencedRegions(content, 0) : i >= r[2]

\* C32: the fence scan yields an ordered list of parts that partitions the
\* text: the parts are non-empty, their concatenation is the text, the fenced
\* parts are the leftmost non-overlapping shortest spans from a fence to the
\* following fence, no two plain parts are adjacent, and the text from an
\* opening fence without a closing one lies in a plain part, the last one.
C32_ScanPartitions ==
    spc = "done" =>
        /\ \A k \in 1..Len(s_parts) : Len(s_parts[k]) >= 1
        /\ Concat(s_parts) = [i \in 1..Len(content) |-> i]
        /\ Concat([k \in 1..Len(s_parts) |-> Str(content, s_parts[k])]) = content
        /\ {PartSpan(k) : k \in {j \in 1..Len(s_parts) : FencedPart(j)}}
              = FencedRegions(content, 0)
        /\ \A k \in 1..(Len(s_parts) - 1) : FencedPart(k) \/ FencedPart(k + 1)
        /\ \A i \in 0..Len(content) :
              Unclosed(i) =>
                 /\ s_parts # <<>>
                 /\ ~FencedPart(Len(s_parts))
                 /\ PartSpan(Len(s_parts))[1] <= i
                 /\ PartSpan(Len(s_parts))[2] = Len(content)

\* C32 witness: a plain part, a fenced part and a last plain part that
\* holds an opening fence without a closing one.
C32_Witness ==
    /\ spc = "done"
    /\ Len(s_parts) = 3
    /\ ~FencedPart(1)
    /\ FencedPart(2)
    /\ ~FencedPart(3)
    /\ \E i \in 0..Len(content) : Unclosed(i)

\* C32 witness: two fenced parts side by side, no plain part.
C32_WitnessAdjacent ==
    /\ spc = "done"
    /\ Len(s_parts) = 2
    /\ FencedPart(1)
    /\ FencedPart(2)

====
